---- MODULE Spec2Model ----
(***************************************************************************)
(* A model of the MDX container library (MDXManifest and MDXDocument of    *)
(* the TypeScript implementation): the in-memory document model, its       *)
(* mutating operations, and the archive codec open()/save().               *)
(*                                                                         *)
(* Representation.                                                         *)
(*  - A path or file name is a sequence over a small alphabet: "/", "\\",  *)
(*    "." and ordinary letters.  An ordinary letter is written as a word   *)
(*    ("assets", "png"); a word stands for ONE letter of the alphabet.     *)
(*  - A text (JS string holding Markdown) is a sequence of code units.     *)
(*  - File bytes are a record [raw, json]: raw is a sequence of byte       *)
(*    values; a file holding the UTF-8 bytes of a JSON text is carried as  *)
(*    the parsed value in json (raw empty).  JSON.parse throws on a file   *)
(*    whose json part is empty.                                            *)
(*  - An optional value (undefined / null / absent key) is a sequence of   *)
(*    length 0 or 1.                                                       *)
(***************************************************************************)
EXTENDS Integers, Sequences, FiniteSets, TLC

\* ------------------------------------------------------------------ bounds
MaxClock == 1
MaxAssets == 2
MaxVersions == 2
MaxAnnotations == 1
MaxContentLen == 3
MaxRuns == 2
MaxReplies == 1
MaxAuthors == 1
MaxTouched == 2

None == <<>>
Some(x) == <<x>>
IsSome(o) == o # <<>>

\* ------------------------------------------------------ constants of the code
MDX_VERSION == "1.0.0"

ManifestPath == <<"manifest", ".", "json">>
DefaultEntryPoint == <<"document", ".", "md">>
VersionsPath == <<"history", "/", "versions", ".", "json">>
AnnotationsPath == <<"annotations", "/", "annotations", ".", "json">>
\* the key JSZip looks up when handed the value undefined as a name
UndefinedKey == <<"undefined">>

AssetCategory ==
  {"images", "video", "audio", "models", "documents", "data", "styles",
   "scripts", "fonts", "other"}

\* ------------------------------------------------------------ path utilities
RECURSIVE LastIndexOf(_, _)
LastIndexOf(s, ch) ==
  IF s = <<>> THEN 0
  ELSE IF s[Len(s)] = ch THEN Len(s)
  ELSE LastIndexOf(SubSeq(s, 1, Len(s) - 1), ch)

Max(a, b) == IF a >= b THEN a ELSE b

ToLowerCase(ch) == IF ch = "PNG" THEN "png" ELSE ch

\* index 0 plays the part of JavaScript's -1 ("not found")
getExtension(filepath) ==
  LET lastDot == LastIndexOf(filepath, ".")
      lastSlash == Max(LastIndexOf(filepath, "/"), LastIndexOf(filepath, "\\"))
  IN IF lastDot > lastSlash /\ lastDot # 0
     THEN [i \in 1..(Len(filepath) - lastDot + 1) |->
             ToLowerCase(filepath[lastDot + i - 1])]
     ELSE <<>>

\* representative rows of the extension tables; every other extension is
\* absent from the table (undefined)
EXTENSION_TO_CATEGORY(ext) ==
  IF ext = <<".", "png">> THEN Some("images")
  ELSE IF ext = <<".", "csv">> THEN Some("data")
  ELSE IF ext = <<".", "css">> THEN Some("styles")
  ELSE None

EXTENSION_TO_MIME(ext) ==
  IF ext = <<".", "png">> THEN Some("image/png")
  ELSE IF ext = <<".", "csv">> THEN Some("text/csv")
  ELSE IF ext = <<".", "css">> THEN Some("text/css")
  ELSE None

getMimeType(filepath) ==
  LET m == EXTENSION_TO_MIME(getExtension(filepath))
  IN IF IsSome(m) THEN m[1] ELSE "application/octet-stream"

getAssetCategory(filepath) == EXTENSION_TO_CATEGORY(getExtension(filepath))

ReplaceBackslashes(path) ==
  [i \in 1..Len(path) |-> IF path[i] = "\\" THEN "/" ELSE path[i]]

RECURSIVE StripLeadingSlashes(_)
StripLeadingSlashes(path) ==
  IF path # <<>> /\ path[1] = "/" THEN StripLeadingSlashes(Tail(path))
  ELSE path

RECURSIVE IndexOf(_, _, _)
IndexOf(s, ch, from) ==
  IF from > Len(s) THEN 0
  ELSE IF s[from] = ch THEN from
  ELSE IndexOf(s, ch, from + 1)

\* String.prototype.split("/")
RECURSIVE SplitSlash(_)
SplitSlash(path) ==
  LET i == IndexOf(path, "/", 1)
  IN IF i = 0 THEN <<path>>
     ELSE <<SubSeq(path, 1, i - 1)>> \o SplitSlash(SubSeq(path, i + 1, Len(path)))

\* Array.prototype.join("/")
RECURSIVE JoinSlash(_)
JoinSlash(parts) ==
  IF parts = <<>> THEN <<>>
  ELSE IF Len(parts) = 1 THEN parts[1]
  ELSE parts[1] \o <<"/">> \o JoinSlash(Tail(parts))

KeepSegment(p) == p # <<>> /\ p # <<".", ".">> /\ p # <<".">>

sanitizePath(path) ==
  LET sanitized == StripLeadingSlashes(ReplaceBackslashes(path))
      parts == SelectSeq(SplitSlash(sanitized), KeepSegment)
  IN JoinSlash(parts)

\* ------------------------------------------------------- text and file bytes
Replacement == 65533

\* a UTF-16 code unit that is half of a surrogate pair; the texts of this model
\* never hold a pair, so every such unit is a lone surrogate
IsSurrogate(c) == c >= 55296 /\ c <= 57343

ThreeBytes(c) ==
  <<224 + (c \div 4096), 128 + ((c \div 64) % 64), 128 + (c % 64)>>

EncodeChar(c) ==
  IF c < 128 THEN <<c>>
  ELSE IF c < 2048 THEN <<192 + (c \div 64), 128 + (c % 64)>>
  ELSE IF IsSurrogate(c) THEN ThreeBytes(Replacement)
  ELSE ThreeBytes(c)

\* TextEncoder.encode over the Basic Multilingual Plane: a lone surrogate is
\* encoded as U+FFFD
RECURSIVE Utf8Encode(_)
Utf8Encode(text) ==
  IF text = <<>> THEN <<>> ELSE EncodeChar(text[1]) \o Utf8Encode(Tail(text))

IsContinuation(b) == b >= 128 /\ b <= 191

DecodeThree(bytes) ==
  (bytes[1] - 224) * 4096 + (bytes[2] - 128) * 64 + (bytes[3] - 128)

\* TextDecoder.decode: malformed input decodes to U+FFFD
RECURSIVE Utf8Decode(_)
Utf8Decode(bytes) ==
  IF bytes = <<>> THEN <<>>
  ELSE IF bytes[1] < 128 THEN <<bytes[1]>> \o Utf8Decode(Tail(bytes))
  ELSE IF /\ bytes[1] >= 194 /\ bytes[1] <= 223 /\ Len(bytes) >= 2
          /\ IsContinuation(bytes[2])
       THEN <<(bytes[1] - 192) * 64 + (bytes[2] - 128)>>
            \o Utf8Decode(Tail(Tail(bytes)))
  ELSE IF /\ bytes[1] >= 224 /\ bytes[1] <= 239 /\ Len(bytes) >= 3
          /\ IsContinuation(bytes[2]) /\ IsContinuation(bytes[3])
          /\ DecodeThree(bytes) >= 2048 /\ ~IsSurrogate(DecodeThree(bytes))
       THEN <<DecodeThree(bytes)>> \o Utf8Decode(Tail(Tail(Tail(bytes))))
  ELSE <<Replacement>> \o Utf8Decode(Tail(bytes))

RawData(bytes) == [raw |-> bytes, json |-> None]
JsonData(value) == [raw |-> <<>>, json |-> Some(value)]

\* the bytes JSZip stores for zip.file(name, string)
TextData(text) == RawData(Utf8Encode(text))

\* the text of a JSON file is never inspected as Markdown in this model;
\* it reads back as a text starting with "{"
JsonTextMarker == <<123>>

\* zipEntry.async("text")
AsText(data) == IF IsSome(data.json) THEN JsonTextMarker ELSE Utf8Decode(data.raw)

\* Uint8Array: a view of length bytes at byteOffset into buffer
WholeView(data) ==
  [buffer |-> data, byteOffset |-> 0,
   length |-> IF IsSome(data.json) THEN 1 ELSE Len(data.raw)]

\* the bytes a view denotes (what JSZip writes for a Uint8Array)
ViewBytes(view) ==
  IF IsSome(view.buffer.json) THEN view.buffer
  ELSE RawData(SubSeq(view.buffer.raw, view.byteOffset + 1,
                      view.byteOffset + view.length))

\* ------------------------------------------------------------------ checksum
\* crypto.subtle.digest, taken to be collision-free: the digest of a buffer
\* is represented by the buffer's bytes
Digest(buffer) == buffer.raw

\* computeChecksum(data) for a Uint8Array: the bytes hashed are data.buffer.
\* The result None stands for the empty string of the no-crypto fallback.
HashedBuffer(view) == view.buffer

computeChecksum(view, hasSubtle) ==
  IF hasSubtle
  THEN Some([algorithm |-> "sha256", digest |-> Digest(HashedBuffer(view))])
  ELSE None

\* ---------------------------------------------------------------- MDXManifest
\* The manifest data.  document is always present in this model; content is
\* optional (a foreign manifest may lack it); every asset category is present
\* (a missing category array behaves as an empty one and is created on demand).
NewManifest(id, t) ==
  [mdx_version |-> Some(MDX_VERSION),
   document |-> [id |-> Some(id), title |-> <<85>>, created |-> Some(t),
                 modified |-> Some(t), version |-> None, description |-> None,
                 language |-> None, authors |-> <<>>, subtitle |-> None,
                 contributors |-> <<>>],
   content |-> Some([entry_point |-> Some(DefaultEntryPoint)]),
   assets |-> [c \in AssetCategory |-> <<>>],
   history |-> None,
   collaboration |-> None,
   rendering |-> None,
   styles |-> None,
   custom |-> None]

\* an updateModified that leaves the timestamp alone
updateModified_Silent(m, t) == m

updateModified(m, t) == [m EXCEPT !.document.modified = Some(t)]

SetManifestSubtitle(m, value, t) ==
  updateModified([m EXCEPT !.document.subtitle = value], t)

SetManifestTitle(m, value, t) ==
  updateModified([m EXCEPT !.document.title = value], t)
SetManifestDescription(m, value, t) ==
  updateModified([m EXCEPT !.document.description = value], t)
SetManifestLanguage(m, value, t) ==
  updateModified([m EXCEPT !.document.language = value], t)
SetManifestVersion(m, value, t) ==
  updateModified([m EXCEPT !.document.version = Some(value)], t)
SetManifestEntryPoint(m, value, t) ==
  updateModified([m EXCEPT !.content = Some([entry_point |-> Some(value)])], t)

DefaultVersion == <<"1", ".", "0", ".", "0">>
ManifestVersion(m) ==
  IF IsSome(m.document.version) THEN m.document.version[1] ELSE DefaultVersion

\* get entryPoint(): reading content.entry_point of an absent content section
\* throws a TypeError
EntryPointThrows(m) == m.content = None
ManifestEntryPoint(m) == m.content[1].entry_point

addAuthor(m, author, t) ==
  updateModified([m EXCEPT !.document.authors = Append(@, author)], t)

addContributor(m, contributor, t) ==
  updateModified([m EXCEPT !.document.contributors = Append(@, contributor)], t)

\* Object.assign(target, cleanObject(options)): the keys options defines
\* replace the target's, the others stay; a section not there yet starts empty
AssignOptions(section, options) ==
  LET target == IF section = None THEN [k \in DOMAIN options |-> None] ELSE section[1]
  IN Some([k \in DOMAIN options |->
             IF IsSome(options[k]) THEN options[k] ELSE target[k]])

setRenderingOptions(m, options, t) ==
  updateModified([m EXCEPT !.rendering = AssignOptions(@, options)], t)

setStylesOptions(m, options, t) ==
  updateModified([m EXCEPT !.styles = AssignOptions(@, options)], t)

\* this._data.custom[key] = value
setCustomData(m, key, value, t) ==
  updateModified(
    [m EXCEPT !.custom = Some(IF @ = None THEN (key :> value)
                              ELSE (key :> value) @@ @[1])], t)

addAsset(m, metadata, category, t) ==
  updateModified([m EXCEPT !.assets[category] = Append(@, metadata)], t)

\* Object.values(assets) enumerates the categories in the order the
\* constructor lists them, the on-demand ones last
CategoryOrder ==
  <<"images", "video", "audio", "models", "documents", "data", "fonts",
    "other", "styles", "scripts">>

RECURSIVE Concat(_)
Concat(seqs) == IF seqs = <<>> THEN <<>> ELSE seqs[1] \o Concat(Tail(seqs))

getAssets(m) == Concat([i \in 1..Len(CategoryOrder) |-> m.assets[CategoryOrder[i]]])

AssetPaths(m) == {getAssets(m)[i].path : i \in 1..Len(getAssets(m))}
AssetCount(m) == Len(getAssets(m))

\* Object.assign(asset, cleanObject(updates)): absent updates keep the field
MergeAsset(asset, updates) ==
  [path |-> IF IsSome(updates.path) THEN updates.path[1] ELSE asset.path,
   mime_type |-> asset.mime_type,
   size_bytes |-> IF IsSome(updates.size_bytes) THEN updates.size_bytes[1]
                  ELSE asset.size_bytes,
   checksum |-> IF IsSome(updates.checksum) THEN updates.checksum
                ELSE asset.checksum]

\* the first category, in enumeration order, holding a record of that path
FirstCategoryWith(m, path) ==
  LET hits == SelectSeq(CategoryOrder,
                LAMBDA c : \E i \in 1..Len(m.assets[c]) : m.assets[c][i].path = path)
  IN IF hits = <<>> THEN None ELSE Some(hits[1])

FirstIndexWith(list, path) ==
  CHOOSE i \in 1..Len(list) :
    /\ list[i].path = path
    /\ \A j \in 1..(i - 1) : list[j].path # path

updateAssetFound(m, path) == IsSome(FirstCategoryWith(m, path))

updateAsset(m, path, updates, t) ==
  LET c == FirstCategoryWith(m, path)
  IN IF c = None THEN m
     ELSE LET i == FirstIndexWith(m.assets[c[1]], path)
          IN updateModified(
               [m EXCEPT !.assets[c[1]][i] = MergeAsset(@, updates)], t)

enableHistory(m, t) == updateModified([m EXCEPT !.history = Some([enabled |-> TRUE])], t)

enableCollaboration(m, t) ==
  updateModified([m EXCEPT !.collaboration = Some([allow_annotations |-> TRUE])], t)

Falsy(opt) == opt = None \/ opt[1] = <<>>

validate(m) ==
  (IF m.mdx_version = None THEN <<"Missing required field: mdx_version">> ELSE <<>>)
  \o (IF m.document.id = None
      THEN <<"Missing required document field: id">> ELSE <<>>)
  \o (IF m.document.title = <<>>
      THEN <<"Missing required document field: title">> ELSE <<>>)
  \o (IF m.document.created = None
      THEN <<"Missing required document field: created">> ELSE <<>>)
  \o (IF m.document.modified = None
      THEN <<"Missing required document field: modified">> ELSE <<>>)
  \o (IF m.content = None THEN <<"Missing required field: content">>
      ELSE IF Falsy(m.content[1].entry_point)
      THEN <<"Missing required content field: entry_point">> ELSE <<>>)

\* ------------------------------------------------- asset store (Map) and JSZip
\* Map<string, Uint8Array>: a sequence of [path, data] in insertion order
MapHas(map, path) == \E i \in 1..Len(map) : map[i].path = path
MapIndex(map, path) == CHOOSE i \in 1..Len(map) : map[i].path = path
MapGet(map, path) == map[MapIndex(map, path)].data
\* Map.set keeps the position of a key that is already present
MapSet(map, path, data) ==
  IF MapHas(map, path)
  THEN [map EXCEPT ![MapIndex(map, path)].data = data]
  ELSE Append(map, [path |-> path, data |-> data])
MapDelete(map, path) == SelectSeq(map, LAMBDA e : e.path # path)
MapKeys(map) == {map[i].path : i \in 1..Len(map)}

\* A JSZip archive: a sequence of entries [name, dir, data] in the order the
\* names were first added; zip.file(name, data) on an existing name replaces
\* the entry where it stands.  Folder entries that JSZip creates for parent
\* directories are left out; a directory entry is only ever met on load.
ZipHas(zip, name) == \E i \in 1..Len(zip) : zip[i].name = name
ZipIndex(zip, name) == CHOOSE i \in 1..Len(zip) : zip[i].name = name
ZipAdd(zip, name, data) ==
  IF ZipHas(zip, name)
  THEN [zip EXCEPT ![ZipIndex(zip, name)] = [name |-> name, dir |-> FALSE, data |-> data]]
  ELSE Append(zip, [name |-> name, dir |-> FALSE, data |-> data])
\* zip.file(name): the entry of that name unless it is a directory
ZipFileExists(zip, name) ==
  \E i \in 1..Len(zip) : zip[i].name = name /\ ~zip[i].dir
ZipFileData(zip, name) == zip[ZipIndex(zip, name)].data
ZipNames(zip) == {zip[i].name : i \in 1..Len(zip)}

RECURSIVE ZipAddAssets(_, _)
ZipAddAssets(zip, map) ==
  IF map = <<>> THEN zip
  ELSE ZipAddAssets(ZipAdd(zip, map[1].path, ViewBytes(map[1].data)), Tail(map))

\* ------------------------------------------------------------------ JSON files
ManifestJson(m) == [m |-> Some(m), v |-> None, a |-> None]
VersionsJson(current, vs) ==
  [m |-> None,
   v |-> Some([schema_version |-> "1.0.0", current_version |-> current,
               versions |-> Some(vs)]),
   a |-> None]
AnnotationsJson(ans) ==
  [m |-> None, v |-> None,
   a |-> Some([schema_version |-> "1.0.0", annotations |-> Some(ans)])]

\* JSON.parse throws a SyntaxError on a file that holds no JSON text
ParseThrows(data) == data.json = None

\* ----------------------------------------------------------- MDXDocument.save
ErrorResult(name, message, mentions) ==
  [status |-> "error", name |-> name, message |-> message, mentions |-> mentions]

SaveVersions(zip, m, vs) ==
  IF Len(vs) > 0
  THEN ZipAdd(zip, VersionsPath, JsonData(VersionsJson(ManifestVersion(m), vs)))
  ELSE zip

SaveAnnotations(zip, ans) ==
  IF Len(ans) > 0
  THEN ZipAdd(zip, AnnotationsPath, JsonData(AnnotationsJson(ans)))
  ELSE zip

SaveRejects_Never(m) == FALSE

SaveRejects(m) == Len(validate(m)) > 0

\* the archive save() generates when the manifest validates
SaveArchive(m, c, as, vs, ans) ==
  LET z1 == ZipAdd(<<>>, ManifestPath, JsonData(ManifestJson(m)))
      z2 == ZipAdd(z1, ManifestEntryPoint(m)[1], TextData(c))
      z3 == ZipAddAssets(z2, as)
      z4 == SaveVersions(z3, m, vs)
  IN SaveAnnotations(z4, ans)

\* ----------------------------------------------------------- MDXDocument.open
\* the name handed to zip.file() for the entry point
EntryPointKey(m) ==
  IF IsSome(ManifestEntryPoint(m)) THEN ManifestEntryPoint(m)[1] ELSE UndefinedKey

IsOtherFile(entry, entryPoint) ==
  entry.name # ManifestPath /\ entry.name # entryPoint /\ ~entry.dir

RECURSIVE LoadAssets(_, _, _)
LoadAssets(zip, entryPoint, map) ==
  IF zip = <<>> THEN map
  ELSE LoadAssets(Tail(zip), entryPoint,
         IF IsOtherFile(zip[1], entryPoint)
         THEN MapSet(map, zip[1].name, WholeView(zip[1].data))
         ELSE map)

LoadVersions(zip) ==
  IF ZipFileExists(zip, VersionsPath)
  THEN LET f == ZipFileData(zip, VersionsPath).json[1].v[1]
       IN IF IsSome(f.versions) THEN f.versions[1] ELSE <<>>
  ELSE <<>>

LoadAnnotations(zip) ==
  IF ZipFileExists(zip, AnnotationsPath)
  THEN LET f == ZipFileData(zip, AnnotationsPath).json[1].a[1]
       IN IF IsSome(f.annotations) THEN f.annotations[1] ELSE <<>>
  ELSE <<>>

\* the error open() rejects with, or None when it resolves
MissingManifestError_Vague ==
  Some(ErrorResult("Error", "Invalid MDX file", None))

\* new Error("Invalid MDX file: missing manifest.json")
MissingManifestError ==
  Some(ErrorResult("Error", "Invalid MDX file: missing", Some(ManifestPath)))

OpenError(zip) ==
  IF ~ZipFileExists(zip, ManifestPath)
  THEN MissingManifestError
  ELSE IF ParseThrows(ZipFileData(zip, ManifestPath))
  THEN Some(ErrorResult("SyntaxError", "JSON.parse", None))
  ELSE LET m == ZipFileData(zip, ManifestPath).json[1].m[1]
       IN IF EntryPointThrows(m)
          THEN Some(ErrorResult("TypeError", "Cannot read properties of undefined", None))
          ELSE IF ~ZipFileExists(zip, EntryPointKey(m))
          THEN Some(ErrorResult("Error", "Invalid MDX file: missing",
                                Some(EntryPointKey(m))))
          ELSE IF /\ ZipFileExists(zip, VersionsPath)
                  /\ ParseThrows(ZipFileData(zip, VersionsPath))
          THEN Some(ErrorResult("SyntaxError", "JSON.parse", None))
          ELSE IF /\ ZipFileExists(zip, AnnotationsPath)
                  /\ ParseThrows(ZipFileData(zip, AnnotationsPath))
          THEN Some(ErrorResult("SyntaxError", "JSON.parse", None))
          ELSE None

\* the Document open() resolves with (defined when OpenError(zip) = None)
OpenDocument(zip) ==
  LET m == ZipFileData(zip, ManifestPath).json[1].m[1]
      ep == EntryPointKey(m)
  IN [manifest |-> m,
      content |-> AsText(ZipFileData(zip, ep)),
      assets |-> LoadAssets(zip, ep, <<>>),
      versions |-> LoadVersions(zip),
      annotations |-> LoadAnnotations(zip)]

\* ------------------------------------------------------------ version history
SnapshotPath_Fixed(version) ==
  <<"history", "/", "snapshots", "/", "v", ".", "md">>

SnapshotPath(version) ==
  <<"history", "/", "snapshots", "/", "v">> \o version \o <<".", "md">>

ParentVersion_OffByOne(vs) ==
  IF Len(vs) > 1 THEN Some(vs[Len(vs) - 1].version) ELSE None

ParentVersion(vs) == IF Len(vs) > 0 THEN Some(vs[Len(vs)].version) ELSE None

NewVersionEntry(version, vs, t) ==
  [version |-> version,
   timestamp |-> t,
   snapshot |-> Some([type |-> "full", path |-> SnapshotPath(version)]),
   parent_version |-> ParentVersion(vs),
   changes |-> None]

\* Array.prototype.find: the first entry carrying that version string
FindVersion(vs, version) ==
  LET hits == SelectSeq(vs, LAMBDA e : e.version = version)
  IN IF hits = <<>> THEN None ELSE Some(hits[1])

\* getVersionContent: the decoded snapshot bytes, or None for undefined
getVersionContent(vs, as, version) ==
  LET entry == FindVersion(vs, version)
  IN IF IsSome(entry) /\ IsSome(entry[1].snapshot)
        /\ MapHas(as, entry[1].snapshot[1].path)
     THEN Some(AsText(ViewBytes(MapGet(as, entry[1].snapshot[1].path))))
     ELSE None

\* ------------------------------------------------------------------ the state
\* ---------------------------------------------------------------- MDXValidator
\* (cli/src/commands/validate.js)  The instance fields are a record; the file
\* at filePath is [exists, zip]: zip is None for a file that is no ZIP
\* archive, and otherwise the sequence of entries AdmZip lists.
Level == [ERROR |-> "error", WARNING |-> "warning", INFO |-> "info"]

\* an issue {message, details}: the text of the message without the path it
\* interpolates, and that path (None when the message names none)
Issue(message, subject) == [message |-> message, subject |-> subject]

addIssue(v, level, message, subject) ==
  CASE level = Level.ERROR -> [v EXCEPT !.errors = Append(@, Issue(message, subject))]
    [] level = Level.WARNING -> [v EXCEPT !.warnings = Append(@, Issue(message, subject))]
    [] level = Level.INFO -> [v EXCEPT !.info = Append(@, Issue(message, subject))]
    [] OTHER -> v

\* new MDXValidator(filePath)
NewValidator(file) ==
  [constructed |-> TRUE, file |-> file, errors |-> <<>>, warnings |-> <<>>,
   info |-> <<>>, manifest |-> None]

getResults_CountsWarnings(v) ==
  [valid |-> Len(v.errors) = 0 /\ Len(v.warnings) = 0,
   errors |-> v.errors, warnings |-> v.warnings, info |-> v.info,
   summary |-> [errors |-> Len(v.errors), warnings |-> Len(v.warnings),
                info |-> Len(v.info)]]

getResults(v) ==
  [valid |-> Len(v.errors) = 0,
   errors |-> v.errors, warnings |-> v.warnings, info |-> v.info,
   summary |-> [errors |-> Len(v.errors), warnings |-> Len(v.warnings),
                info |-> Len(v.info)]]

\* the regular expressions, by the values of this model that match them:
\* /^\d+\.\d+\.\d+(-[a-zA-Z0-9.]+)?$/
SemVerShaped(version) == version \in {"1.0.0", "1.1.0", "2.0.0-beta.1"}
\* the UUID pattern: the ids generateUUID makes are the naturals, any other
\* string is a negative number
UuidShaped(id) == id >= 0
\* isValidISO8601: the timestamps toISOString makes are the naturals, any
\* other string is a negative number
isValidISO8601(dateString) == dateString >= 0

\* validateManifest(fileNames), on a manifest that is an object
ValidateVersionField(v, m) ==
  IF m.mdx_version = None \/ m.mdx_version = Some("")
  THEN addIssue(v, Level.ERROR, "Missing required field: mdx_version", None)
  ELSE IF ~SemVerShaped(m.mdx_version[1])
  THEN addIssue(v, Level.WARNING, "mdx_version should follow SemVer format", None)
  ELSE v

ValidateIdField(v, doc) ==
  IF doc.id = None
  THEN addIssue(v, Level.ERROR, "Missing required field: document.id", None)
  ELSE IF ~UuidShaped(doc.id[1])
  THEN addIssue(v, Level.WARNING, "document.id should be a valid UUID v4", None)
  ELSE v

\* a title check that only warns
ValidateTitleField_Warns(v, doc) ==
  IF doc.title = <<>>
  THEN addIssue(v, Level.WARNING, "Missing required field: document.title", None)
  ELSE v

ValidateTitleField(v, doc) ==
  IF doc.title = <<>>
  THEN addIssue(v, Level.ERROR, "Missing required field: document.title", None)
  ELSE v

ValidateDateField(v, value, missing, malformed) ==
  IF value = None THEN addIssue(v, Level.WARNING, missing, None)
  ELSE IF ~isValidISO8601(value[1]) THEN addIssue(v, Level.WARNING, malformed, None)
  ELSE v

ValidateOptionalField(v, value, message) ==
  IF value = None THEN addIssue(v, Level.INFO, message, None) ELSE v

ValidateContentSection(v, m) ==
  IF m.content = None
  THEN addIssue(v, Level.ERROR, "Missing required section: content", None)
  ELSE IF m.content[1].entry_point = None
  THEN addIssue(v, Level.INFO,
                "content.entry_point not set, defaulting to document.md", None)
  ELSE v

validateManifest(v) ==
  LET m == v.manifest[1]
      doc == m.document
      v1 == ValidateVersionField(v, m)
      v2 == ValidateIdField(v1, doc)
      v3 == ValidateTitleField(v2, doc)
      v4 == ValidateDateField(v3, doc.created,
                              "Missing recommended field: document.created",
                              "document.created should be ISO 8601 format")
      v5 == ValidateDateField(v4, doc.modified,
                              "Missing recommended field: document.modified",
                              "document.modified should be ISO 8601 format")
      v6 == ValidateOptionalField(v5, doc.version,
                                  "Optional field document.version not set")
      v7 == ValidateOptionalField(v6, doc.language,
                                  "Optional field document.language not set")
  IN ValidateContentSection(v7, m)

\* entries.find(e => e.entryName === name)
EntryExists(zip, name) == \E i \in 1..Len(zip) : zip[i].name = name
FindEntry(zip, name) ==
  zip[CHOOSE i \in 1..Len(zip) :
        zip[i].name = name /\ \A j \in 1..(i - 1) : zip[j].name # name]
\* entry.header.size
EntrySize(entry) == Len(entry.data.raw)

StartsWith(name, prefix) ==
  Len(name) >= Len(prefix) /\ SubSeq(name, 1, Len(prefix)) = prefix

Includes(name, part) ==
  \E i \in 1..(Len(name) - Len(part) + 1) : SubSeq(name, i, i + Len(part) - 1) = part

\* the categories validateAssets walks
ValidatedCategories ==
  <<"images", "video", "audio", "models", "documents", "data", "fonts", "other">>

\* this.manifest?.assets || {}: no record at all without a manifest
ManifestAssets(v) ==
  IF v.manifest = None THEN [c \in AssetCategory |-> <<>>] ELSE v.manifest[1].assets

\* the body of the loop over one category's assets, for one asset
ValidateAsset(v, zip, category, asset) ==
  IF asset.path = <<>>
  THEN addIssue(v, Level.ERROR, "Asset missing required field: path", None)
  ELSE
    LET v1 == IF ~EntryExists(zip, asset.path)
              THEN addIssue(v, Level.ERROR, "Asset not found in archive", Some(asset.path))
              ELSE v
        v2 == IF ~StartsWith(asset.path, <<"assets", "/", category, "/">>)
              THEN addIssue(v1, Level.WARNING, "Asset path should be under its category",
                            Some(asset.path))
              ELSE v1
        v3 == IF asset.mime_type = ""
              THEN addIssue(v2, Level.WARNING, "Asset missing mime_type", Some(asset.path))
              ELSE v2
        v4 == IF /\ EntryExists(zip, asset.path)
                 /\ EntrySize(FindEntry(zip, asset.path)) # asset.size_bytes
              THEN addIssue(v3, Level.WARNING, "Asset size mismatch", Some(asset.path))
              ELSE v3
    IN IF category = "images"
       THEN addIssue(v4, Level.INFO, "Image missing alt_text", Some(asset.path))
       ELSE v4

RECURSIVE ValidateAssetList(_, _, _, _)
ValidateAssetList(v, zip, category, list) ==
  IF list = <<>> THEN v
  ELSE ValidateAssetList(ValidateAsset(v, zip, category, list[1]), zip, category,
                         Tail(list))

RECURSIVE ValidateCategories(_, _, _)
ValidateCategories(v, zip, categories) ==
  IF categories = <<>> THEN v
  ELSE ValidateCategories(
         ValidateAssetList(v, zip, categories[1], ManifestAssets(v)[categories[1]]),
         zip, Tail(categories))

manifestedPaths(v) ==
  UNION {{ManifestAssets(v)[ValidatedCategories[i]][k].path :
            k \in 1..Len(ManifestAssets(v)[ValidatedCategories[i]])} :
         i \in 1..Len(ValidatedCategories)} \ {<<>>}

RECURSIVE ReportOrphans(_, _, _)
ReportOrphans(v, paths, entries) ==
  IF entries = <<>> THEN v
  ELSE ReportOrphans(
         IF StartsWith(entries[1].name, <<"assets", "/">>) /\ ~entries[1].dir
            /\ entries[1].name \notin paths
         THEN addIssue(v, Level.WARNING, "Orphaned asset (not in manifest)",
                       Some(entries[1].name))
         ELSE v,
         paths, Tail(entries))

validateAssets(v, zip) ==
  ReportOrphans(ValidateCategories(v, zip, ValidatedCategories),
                manifestedPaths(v), zip)

\* crypto.createHash(algorithm) throws on a name OpenSSL does not know
HashAlgorithms == {"sha256", "sha384", "sha512", "md5"}

\* a validateChecksums loop body that only warns about a digest that differs
ValidateChecksum_WarnsOnly(v, zip, asset) ==
  IF asset.checksum = None \/ asset.path = <<>> THEN v
  ELSE IF ~EntryExists(zip, asset.path) THEN v
  ELSE IF asset.checksum[1].algorithm \notin HashAlgorithms THEN v
  ELSE IF Digest(FindEntry(zip, asset.path).data) # asset.checksum[1].digest
  THEN addIssue(v, Level.WARNING, "Checksum mismatch", Some(asset.path))
  ELSE v

\* the body of validateChecksums' inner loop, for one asset.  A checksum
\* "algorithm:hexdigest" is the record [algorithm, digest]; a string without
\* a ":" or with nothing before it has an empty algorithm
ValidateChecksum(v, zip, asset) ==
  IF asset.checksum = None \/ asset.path = <<>> THEN v
  ELSE IF ~EntryExists(zip, asset.path) THEN v
  ELSE IF asset.checksum[1].algorithm = ""
  THEN addIssue(v, Level.WARNING, "Invalid checksum format", Some(asset.path))
  ELSE IF asset.checksum[1].algorithm \notin HashAlgorithms
  THEN addIssue(v, Level.WARNING, "Cannot verify checksum", Some(asset.path))
  ELSE IF Digest(FindEntry(zip, asset.path).data) # asset.checksum[1].digest
  THEN addIssue(v, Level.ERROR, "Checksum mismatch", Some(asset.path))
  ELSE v

RECURSIVE ValidateChecksumList(_, _, _)
ValidateChecksumList(v, zip, list) ==
  IF list = <<>> THEN v
  ELSE ValidateChecksumList(ValidateChecksum(v, zip, list[1]), zip, Tail(list))

\* Object.entries(assets): every category the manifest holds
validateChecksums(v, zip) ==
  IF v.manifest = None THEN v
  ELSE ValidateChecksumList(v, zip, getAssets(v.manifest[1]))

\* validateMarkdownContent: the paths the reference pattern finds in the
\* text.  In the texts of this model the code point U+E000 stands for the
\* image reference "![](assets/images/ref.png)"; no other text holds one.
ImageReference == 57344
ReferencedPath == <<"assets", "/", "images", "/", "ref", ".", "png">>

RECURSIVE ReportReferences(_, _, _)
ReportReferences(v, zip, text) ==
  IF text = <<>> THEN v
  ELSE ReportReferences(
         IF text[1] = ImageReference /\ ~EntryExists(zip, ReferencedPath)
         THEN addIssue(v, Level.ERROR, "Referenced asset not found", Some(ReferencedPath))
         ELSE v,
         zip, Tail(text))

validateMarkdownContent(v, zip, entryPoint) ==
  IF ~EntryExists(zip, entryPoint) THEN v
  ELSE ReportReferences(v, zip, AsText(FindEntry(zip, entryPoint).data))

\* checkCommonIssues(fileNames): four loops over the entries
RECURSIVE ReportBackslashes(_, _)
ReportBackslashes(v, entries) ==
  IF entries = <<>> THEN v
  ELSE ReportBackslashes(
         IF Includes(entries[1].name, <<"\\">>)
         THEN addIssue(v, Level.ERROR, "Path contains backslash", Some(entries[1].name))
         ELSE v,
         Tail(entries))

RECURSIVE ReportLongPaths(_, _)
ReportLongPaths(v, entries) ==
  IF entries = <<>> THEN v
  ELSE ReportLongPaths(
         IF Len(entries[1].name) > 255
         THEN addIssue(v, Level.WARNING, "Path exceeds 255 characters",
                       Some(entries[1].name))
         ELSE v,
         Tail(entries))

IsHidden(name) == StartsWith(name, <<".">>) \/ Includes(name, <<"/", ".">>)

IsSystemFile(name) ==
  \/ Includes(name, <<"__MACOSX">>)
  \/ Includes(name, <<".", "DS_Store">>)
  \/ Includes(name, <<"Thumbs", ".", "db">>)

RECURSIVE ReportHiddenAndSystem(_, _)
ReportHiddenAndSystem(v, entries) ==
  IF entries = <<>> THEN v
  ELSE LET v1 == IF IsHidden(entries[1].name)
                 THEN addIssue(v, Level.INFO, "Hidden file in archive",
                               Some(entries[1].name))
                 ELSE v
           v2 == IF IsSystemFile(entries[1].name)
                 THEN addIssue(v1, Level.WARNING, "System file in archive",
                               Some(entries[1].name))
                 ELSE v1
       IN ReportHiddenAndSystem(v2, Tail(entries))

RECURSIVE ReportLargeFiles(_, _)
ReportLargeFiles(v, entries) ==
  IF entries = <<>> THEN v
  ELSE ReportLargeFiles(
         IF ~entries[1].dir /\ EntrySize(entries[1]) > 10 * 1024 * 1024
         THEN addIssue(v, Level.INFO, "Large file", Some(entries[1].name))
         ELSE v,
         Tail(entries))

checkCommonIssues(v, zip) ==
  ReportLargeFiles(
    ReportHiddenAndSystem(ReportLongPaths(ReportBackslashes(v, zip), zip), zip), zip)

\* validate(), steps 3 and 4: the manifest.json entry
RequireManifest(v, zip) ==
  IF ~EntryExists(zip, ManifestPath)
  THEN addIssue(v, Level.ERROR, "Missing required file: manifest.json", Some(ManifestPath))
  ELSE v

\* JSON.parse throws, or validateManifest throws on a JSON value that is no
\* manifest object
ManifestStageThrows(zip) ==
  /\ EntryExists(zip, ManifestPath)
  /\ \/ ParseThrows(FindEntry(zip, ManifestPath).data)
     \/ FindEntry(zip, ManifestPath).data.json[1].m = None

ParseManifest(v, zip) ==
  IF ~EntryExists(zip, ManifestPath) THEN v
  ELSE IF ParseThrows(FindEntry(zip, ManifestPath).data) THEN v
  ELSE [v EXCEPT !.manifest = FindEntry(zip, ManifestPath).data.json[1].m]

\* this.manifest?.content?.entry_point || 'document.md'
ValidatorEntryPoint(v) ==
  IF /\ v.manifest # None
     /\ v.manifest[1].content # None
     /\ v.manifest[1].content[1].entry_point # None
  THEN v.manifest[1].content[1].entry_point[1]
  ELSE DefaultEntryPoint

\* steps 5 to 8 run only when a manifest was read
ValidateRest_NeedsManifest(v, zip) ==
  IF v.manifest = None THEN v
  ELSE LET entryPoint == ValidatorEntryPoint(v)
           v5 == IF ~EntryExists(zip, entryPoint)
                 THEN addIssue(v, Level.ERROR, "Entry point not found in archive",
                               Some(entryPoint))
                 ELSE validateMarkdownContent(v, zip, entryPoint)
       IN checkCommonIssues(validateChecksums(validateAssets(v5, zip), zip), zip)

\* validate(), steps 5 to 8
ValidateRest(v, zip) ==
  LET entryPoint == ValidatorEntryPoint(v)
      v5 == IF ~EntryExists(zip, entryPoint)
            THEN addIssue(v, Level.ERROR, "Entry point not found in archive",
                          Some(entryPoint))
            ELSE validateMarkdownContent(v, zip, entryPoint)
      v6 == validateAssets(v5, zip)
      v7 == validateChecksums(v6, zip)
  IN checkCommonIssues(v7, zip)

\* validate(): the instance as the run leaves it; getResults of it is what
\* the run returns
ValidatorAfter(v) ==
  IF ~v.file.exists
  THEN addIssue(v, Level.ERROR, "File not found", None)
  ELSE IF v.file.zip = None
  THEN addIssue(v, Level.ERROR, "Not a valid ZIP archive", None)
  ELSE
    LET zip == v.file.zip[1]
        v3 == RequireManifest(v, zip)
    IN IF ManifestStageThrows(zip)
       THEN addIssue(ParseManifest(v3, zip), Level.ERROR, "Invalid manifest.json", None)
       ELSE IF EntryExists(zip, ManifestPath)
       THEN ValidateRest(validateManifest(ParseManifest(v3, zip)), zip)
       ELSE ValidateRest(v3, zip)

VARIABLES
  origin,       \* "none": no Document; "create" / "open": the factory that built it
  manifest,     \* MDXDocument._manifest (the MDXManifest data)
  content,      \* MDXDocument._content
  assets,       \* MDXDocument._assets
  versions,     \* MDXDocument._versions
  annotations,  \* MDXDocument._annotations
  pending,      \* an addAssetFromData call suspended at its checksum await
  original,     \* after open(): the Document whose save() produced the archive
  result,       \* the outcome of the last call (a saved archive is its ret)
  now,          \* the clock isoTimestamp() reads
  subtle,       \* whether the platform provides crypto.subtle
  captured,     \* history: per version string, the content its last createVersion saw
  validator,    \* the MDXValidator instance: filePath's archive and the issue lists
  results,      \* what each validate() call on that instance returned, in order
  exitCode,     \* the code the CLI process exited with, if it has exited
  argv          \* the option flags on the command line of that process

vars == <<origin, manifest, content, assets, versions, annotations, pending,
          original, result, now, subtle, captured, validator, results, exitCode,
          argv>>

cliVars == <<validator, results, exitCode, argv>>

docVars == <<manifest, content, assets, versions, annotations>>

\* ----------------------------------------------------------------- the inputs
Titles == {<<>>, <<84>>}

NoOptions ==
  [description |-> None, language |-> None, version |-> None, author |-> None]

CreateOptions ==
  {NoOptions,
   [description |-> Some("d"), language |-> Some("en"),
    version |-> Some(<<"0", ".", "1", ".", "0">>), author |-> Some("A")]}

SetContentInputs == {<<233>>}
\* a string holding a lone surrogate ("\uD800")
IllFormedInputs == {<<55296>>}
AppendInputs == {<<98>>}

VersionStrings == {<<"1", ".", "0", ".", "0">>, <<"1", ".", "1", ".", "0">>}

EntryPoints == {DefaultEntryPoint, <<"main", ".", "md">>}

\* a Uint8Array over its whole buffer, and one that views the first byte of
\* a two-byte buffer
View1 == [buffer |-> RawData(<<1>>), byteOffset |-> 0, length |-> 1]
View2 == [buffer |-> RawData(<<2, 3>>), byteOffset |-> 0, length |-> 1]

AddInputs ==
  {[data |-> View1, filename |-> <<"a", ".", "png">>,
    category |-> None, targetName |-> None, path |-> None],
   [data |-> View2, filename |-> <<"x">>,
    category |-> Some("images"), targetName |-> Some(<<".", "\\", "a", ".", "png">>),
    path |-> None]}

StylesheetInput ==
  [data |-> View1, filename |-> <<"s", ".", "css">>,
   category |-> None, targetName |-> None, path |-> None]

UpdateInputs ==
  {[path |-> Some(<<"assets", "/", "other", "/", "b">>),
    size_bytes |-> None, checksum |-> None]}

AnnotationTypes == {"commenting", "highlighting"}
StatusInputs == {"resolved"}

\* ----------------------------------------------------------------------- Init
NoResult ==
  [op |-> "none", status |-> "ok", error |-> None, ret |-> None, input |-> None]

Returned(op, value) ==
  [op |-> op, status |-> "ok", error |-> None, ret |-> Some(value), input |-> None]

\* no Document exists: the fields hold the values of a blank instance
BlankManifest == NewManifest(0, 0)

NoCapture == [v \in VersionStrings |-> None]

\* no MDXValidator has been constructed
NoValidator ==
  [constructed |-> FALSE, file |-> [exists |-> FALSE, zip |-> None],
   errors |-> <<>>, warnings |-> <<>>, info |-> <<>>, manifest |-> None]

Init ==
  /\ origin = "none"
  /\ manifest = BlankManifest
  /\ content = <<>>
  /\ assets = <<>>
  /\ versions = <<>>
  /\ annotations = <<>>
  /\ pending = None
  /\ original = None
  /\ result = NoResult
  /\ now = 0
  /\ subtle = TRUE
  /\ captured = NoCapture
  /\ validator = NoValidator
  /\ results = <<>>
  /\ exitCode = None
  /\ argv = {}

\* the same, on a platform with or without the Web Crypto API
InitAnyPlatform ==
  /\ origin = "none"
  /\ manifest = BlankManifest
  /\ content = <<>>
  /\ assets = <<>>
  /\ versions = <<>>
  /\ annotations = <<>>
  /\ pending = None
  /\ original = None
  /\ result = NoResult
  /\ now = 0
  /\ subtle \in BOOLEAN
  /\ captured = NoCapture
  /\ validator = NoValidator
  /\ results = <<>>
  /\ exitCode = None
  /\ argv = {}

Alive == origin # "none"
\* the caller awaits every asynchronous call before making the next one
Idle == pending = None

\* ------------------------------------------------------------------- actions
Tick ==
  /\ now < MaxClock
  /\ now' = now + 1
  /\ UNCHANGED <<origin, docVars, pending, original, result, subtle, cliVars, captured>>

DocumentId == 1

\* the manifest create() leaves behind: the constructor's, then the setters
\* a create that never assigns the title it is given
CreateManifest_DropsTitle(title, options, t) ==
  [NewManifest(DocumentId, t) EXCEPT !.document.title = <<>>]

CreateManifest(title, options, t) ==
  LET m1 == SetManifestTitle(NewManifest(DocumentId, t), title, t)
      m2 == IF IsSome(options.description)
            THEN SetManifestDescription(m1, options.description, t) ELSE m1
      m3 == IF IsSome(options.language)
            THEN SetManifestLanguage(m2, options.language, t) ELSE m2
      m4 == IF IsSome(options.version)
            THEN SetManifestVersion(m3, options.version[1], t) ELSE m3
  IN IF IsSome(options.author)
     THEN addAuthor(m4, [name |-> options.author[1], role |-> "author"], t)
     ELSE m4

\* "# " title "\n\n"
DefaultContent(title) == <<35, 32>> \o title \o <<10, 10>>

CreateWith(title, options) ==
  /\ ~Alive
  /\ Idle
  /\ origin' = "create"
  /\ manifest' = CreateManifest(title, options, now)
  /\ content' = DefaultContent(title)
  /\ assets' = <<>>
  /\ versions' = <<>>
  /\ annotations' = <<>>
  /\ original' = None
  /\ result' = NoResult
  /\ captured' = NoCapture
  /\ UNCHANGED <<pending, now, subtle, cliVars>>

Create == \E title \in Titles, options \in CreateOptions : CreateWith(title, options)

\* create("T")
CreateTitled == CreateWith(<<84>>, NoOptions)

\* set title(value) of MDXDocument
SetTitle ==
  \E value \in Titles :
    /\ Alive /\ Idle
    /\ manifest' = SetManifestTitle(manifest, value, now)
    /\ captured' = NoCapture
    /\ original' = None
    /\ result' = NoResult
    /\ UNCHANGED <<origin, content, assets, versions, annotations, pending,
                   now, subtle, cliVars>>

\* ---- the manifest's other setters and methods, reached through the
\* Document's manifest getter
ManifestCall(after, returned) ==
  /\ Alive /\ Idle
  /\ manifest' = after
  /\ captured' = NoCapture
  /\ original' = None
  /\ result' = returned
  /\ UNCHANGED <<origin, content, assets, versions, annotations, pending,
                 now, subtle, cliVars>>

SetSubtitle ==
  \E value \in {None, Some(<<83>>)} :
    ManifestCall(SetManifestSubtitle(manifest, value, now), NoResult)
SetDescription ==
  ManifestCall(SetManifestDescription(manifest, Some("d"), now), NoResult)
SetVersion ==
  ManifestCall(SetManifestVersion(manifest, <<"0", ".", "1", ".", "0">>, now), NoResult)
SetLanguage ==
  ManifestCall(SetManifestLanguage(manifest, Some("en"), now), NoResult)
AddAuthor ==
  /\ Len(manifest.document.authors) < MaxAuthors
  /\ ManifestCall(addAuthor(manifest, [name |-> "A", role |-> "author"], now), NoResult)
AddContributor ==
  /\ Len(manifest.document.contributors) < MaxAuthors
  /\ ManifestCall(addContributor(manifest, [name |-> "B", role |-> "editor"], now),
                  NoResult)

\* a record for a file the caller describes
ManifestAssetInput ==
  [path |-> <<"assets", "/", "data", "/", "t", ".", "csv">>, mime_type |-> "text/csv",
   size_bytes |-> 1, checksum |-> None]
AbsentAssetPath == <<"assets", "/", "data", "/", "none", ".", "csv">>

AddManifestAsset ==
  /\ AssetCount(manifest) < MaxAssets
  /\ ManifestCall(addAsset(manifest, ManifestAssetInput, "data", now), NoResult)

\* manifest.updateAsset(path, updates) for a path no record has
UpdateAbsentAsset ==
  \E updates \in UpdateInputs :
    /\ AbsentAssetPath \notin AssetPaths(manifest)
    /\ ManifestCall(updateAsset(manifest, AbsentAssetPath, updates, now),
                    Returned("updateAsset", updateAssetFound(manifest, AbsentAssetPath)))

SetRenderingOptions ==
  \E options \in {[math |-> Some("katex")], [math |-> None]} :
    ManifestCall(setRenderingOptions(manifest, options, now), NoResult)
SetStylesOptions ==
  \E options \in {[theme |-> Some("dark")], [theme |-> None]} :
    ManifestCall(setStylesOptions(manifest, options, now), NoResult)
EnableCollaboration ==
  ManifestCall(enableCollaboration(manifest, now), NoResult)
EnableHistory ==
  ManifestCall(enableHistory(manifest, now), NoResult)
SetCustomData ==
  ManifestCall(setCustomData(manifest, "k", 1, now), NoResult)

\* manifest.entryPoint = value
SetEntryPoint ==
  \E value \in EntryPoints :
    /\ Alive /\ Idle
    /\ manifest' = SetManifestEntryPoint(manifest, value, now)
    /\ captured' = NoCapture
    /\ original' = None
    /\ result' = NoResult
    /\ UNCHANGED <<origin, content, assets, versions, annotations, pending,
                   now, subtle, cliVars>>

SetContentTo(markdown) ==
  /\ Alive /\ Idle
  /\ content' = markdown
  /\ original' = None
  /\ result' = NoResult
  /\ UNCHANGED <<origin, manifest, assets, versions, annotations, pending,
                 now, subtle, cliVars, captured>>

SetContent == \E markdown \in SetContentInputs : SetContentTo(markdown)

\* setContent with any JavaScript string, ill-formed ones included
SetContentAny ==
  \E markdown \in SetContentInputs \cup IllFormedInputs : SetContentTo(markdown)

AppendContent ==
  \E markdown \in AppendInputs :
    /\ Alive /\ Idle
    /\ Len(content) + Len(markdown) <= MaxContentLen
    /\ content' = content \o markdown
    /\ original' = None
    /\ result' = NoResult
    /\ UNCHANGED <<origin, manifest, assets, versions, annotations, pending,
                   now, subtle, cliVars, captured>>

\* ---- addAssetFromData, up to the await of computeChecksum
AssetCategoryFor(in) ==
  IF IsSome(in.category) THEN in.category[1]
  ELSE IF IsSome(getAssetCategory(in.filename)) THEN getAssetCategory(in.filename)[1]
  ELSE "other"

\* options.targetName || filename: an empty target name is no target name
TargetName(in) == IF Falsy(in.targetName) THEN in.filename ELSE in.targetName[1]

InternalPath(in) ==
  <<"assets", "/", AssetCategoryFor(in), "/">> \o sanitizePath(TargetName(in))

AddAssetStore(in) ==
  /\ assets' = MapSet(assets, InternalPath(in), in.data)
  /\ pending' = Some([data |-> in.data, filename |-> in.filename,
                      category |-> AssetCategoryFor(in),
                      internalPath |-> InternalPath(in),
                      options |-> [category |-> in.category,
                                   targetName |-> in.targetName,
                                   path |-> in.path]])

AddAssetFromDataWith(in) ==
  /\ Alive /\ Idle
  /\ AssetCount(manifest) < MaxAssets
  /\ AddAssetStore(in)
  /\ original' = None
  /\ result' = NoResult
  /\ captured' = NoCapture
  /\ UNCHANGED <<origin, manifest, content, versions, annotations, now, subtle, cliVars>>

AddAssetFromData == \E in \in AddInputs : AddAssetFromDataWith(in)

\* addAssetFromData(data, "s.css")
AddStylesheet == AddAssetFromDataWith(StylesheetInput)

\* ---- addAssetFromData, from the await on
\* the record built from the computed values, as if options had no further key
BuiltMetadata(p, checksum) ==
  [path |-> p.internalPath,
   mime_type |-> getMimeType(p.filename),
   size_bytes |-> p.data.length,
   checksum |-> checksum]

\* the loop over Object.entries(options) then assigns every key outside its
\* exclusion list to the record; of those keys the inputs carry "path"
AssetMetadata(p, checksum) ==
  IF IsSome(p.options.path)
  THEN [BuiltMetadata(p, checksum) EXCEPT !.path = p.options.path[1]]
  ELSE BuiltMetadata(p, checksum)

AddAssetResume ==
  /\ pending # None
  /\ manifest' = addAsset(manifest,
                   AssetMetadata(pending[1], computeChecksum(pending[1].data, subtle)),
                   pending[1].category, now)
  /\ pending' = None
  /\ captured' = NoCapture
  /\ original' = None
  /\ result' = Returned("addAssetFromData", pending[1].internalPath)
  /\ UNCHANGED <<origin, content, assets, versions, annotations, now,
                 subtle, cliVars>>

removeAsset(map, path) == MapDelete(map, path)

RemoveAsset ==
  \E path \in MapKeys(assets) :
    /\ Alive /\ Idle
    /\ assets' = removeAsset(assets, path)
    /\ original' = None
    /\ result' = Returned("removeAsset", TRUE)
    /\ captured' = NoCapture
    /\ UNCHANGED <<origin, manifest, content, versions, annotations, pending,
                   now, subtle, cliVars>>

\* manifest.updateAsset(path, updates), reached through the manifest getter
UpdateAsset ==
  \E path \in AssetPaths(manifest), updates \in UpdateInputs :
    /\ Alive /\ Idle
    /\ manifest' = updateAsset(manifest, path, updates, now)
    /\ captured' = NoCapture
    /\ original' = None
    /\ result' = Returned("updateAsset", updateAssetFound(manifest, path))
    /\ UNCHANGED <<origin, content, assets, versions, annotations, pending,
                   now, subtle, cliVars>>

\* ---- version history
CreateVersionNamed(version) ==
  /\ Alive /\ Idle
  /\ Len(versions) < MaxVersions
  /\ LET m1 == IF manifest.history = None \/ ~manifest.history[1].enabled
               THEN enableHistory(manifest, now) ELSE manifest
     IN manifest' = SetManifestVersion(m1, version, now)
  /\ assets' = MapSet(assets, SnapshotPath(version), WholeView(TextData(content)))
  /\ versions' = Append(versions, NewVersionEntry(version, versions, now))
  /\ captured' = IF version \in VersionStrings
                 THEN [captured EXCEPT ![version] = Some(content)]
                 ELSE captured
  /\ original' = None
  /\ result' = NoResult
  /\ UNCHANGED <<origin, content, annotations, pending, now, subtle, cliVars>>

CreateVersion == \E version \in VersionStrings : CreateVersionNamed(version)

RestoreVersion ==
  \E version \in VersionStrings :
    /\ Alive /\ Idle
    /\ LET c == getVersionContent(versions, assets, version)
       IN /\ content' = IF IsSome(c) THEN c[1] ELSE content
          /\ result' = [Returned("restoreVersion", IsSome(c))
                          EXCEPT !.input = Some(version)]
    /\ original' = None
    /\ UNCHANGED <<origin, manifest, assets, versions, annotations, pending,
                   now, subtle, cliVars, captured>>

\* ---- annotations
\* generateUUID(): an identifier no annotation of the Document carries
FreshUuid(ans) ==
  CHOOSE n \in 2..(Len(ans) + 2) :
    /\ \A i \in 1..Len(ans) : ans[i].id # n
    /\ \A k \in 2..(n - 1) : \E i \in 1..Len(ans) : ans[i].id = k

InitialStatus(type) == "open"

NewAnnotation(type, id, t) ==
  [id |-> id, motivation |-> type, created |-> t, modified |-> None,
   status |-> InitialStatus(type), replies |-> <<>>]

AddAnnotationOf(type) ==
  /\ Alive /\ Idle
  /\ Len(annotations) < MaxAnnotations
  /\ manifest' = IF manifest.collaboration = None
                    \/ ~manifest.collaboration[1].allow_annotations
                 THEN enableCollaboration(manifest, now) ELSE manifest
  /\ annotations' = Append(annotations,
                           NewAnnotation(type, FreshUuid(annotations), now))
  /\ original' = None
  /\ result' = Returned("addAnnotation", FreshUuid(annotations))
  /\ captured' = NoCapture
  /\ UNCHANGED <<origin, content, assets, versions, pending, now, subtle, cliVars>>

AddAnnotation == \E type \in AnnotationTypes : AddAnnotationOf(type)

AnnotationIds(ans) == {ans[i].id : i \in 1..Len(ans)}
AnnotationIndex(ans, id) ==
  CHOOSE i \in 1..Len(ans) : ans[i].id = id /\ \A j \in 1..(i - 1) : ans[j].id # id

UpdateAnnotationStatus ==
  \E id \in AnnotationIds(annotations), status \in StatusInputs :
    /\ Alive /\ Idle
    /\ annotations' = [annotations EXCEPT
                         ![AnnotationIndex(annotations, id)].status = status,
                         ![AnnotationIndex(annotations, id)].modified = Some(now)]
    /\ original' = None
    /\ result' = Returned("updateAnnotationStatus", TRUE)
    /\ captured' = NoCapture
    /\ UNCHANGED <<origin, manifest, content, assets, versions, pending, now, subtle, cliVars>>

\* the reply addAnnotationReply pushes: its id is the annotation's id and a
\* fresh suffix, here the reply's position
NewReply(annotationId, replies, t) ==
  [id |-> <<annotationId, Len(replies) + 1>>, created |-> t]

AddAnnotationReply ==
  \E id \in AnnotationIds(annotations) :
    LET k == AnnotationIndex(annotations, id)
    IN /\ Alive /\ Idle
       /\ Len(annotations[k].replies) < MaxReplies
       /\ annotations' = [annotations EXCEPT
                            ![k].replies = Append(@, NewReply(id, @, now)),
                            ![k].modified = Some(now)]
       /\ original' = None
       /\ result' = Returned("addAnnotationReply",
                             NewReply(id, annotations[k].replies, now).id)
       /\ captured' = NoCapture
       /\ UNCHANGED <<origin, manifest, content, assets, versions, pending, now, subtle,
                      cliVars>>

removeAnnotation(ans, id) ==
  LET k == AnnotationIndex(ans, id)
  IN SubSeq(ans, 1, k - 1) \o SubSeq(ans, k + 1, Len(ans))

RemoveAnnotation ==
  \E id \in AnnotationIds(annotations) :
    /\ Alive /\ Idle
    /\ annotations' = removeAnnotation(annotations, id)
    /\ original' = None
    /\ result' = Returned("removeAnnotation", TRUE)
    /\ captured' = NoCapture
    /\ UNCHANGED <<origin, manifest, content, assets, versions, pending, now, subtle, cliVars>>

\* ---- save
\* save(), up to its await of generateAsync: the archive is assembled from
\* the fields as they are when the call is made
SaveNow ==
  /\ Alive
  /\ IF SaveRejects(manifest)
     THEN result' = [op |-> "save", status |-> "error",
                     error |-> Some(ErrorResult("Error", "Invalid manifest",
                                                validate(manifest))),
                     ret |-> None, input |-> None]
     ELSE result' = [op |-> "save", status |-> "ok", error |-> None,
                     ret |-> Some(SaveArchive(manifest, content, assets,
                                              versions, annotations)),
                     input |-> None]
  /\ original' = None
  /\ captured' = NoCapture
  /\ UNCHANGED <<origin, docVars, pending, now, subtle, cliVars>>

Save == Idle /\ SaveNow

\* save() called while an addAssetFromData call awaits its checksum
SaveWhileAdding == ~Idle /\ SaveNow

\* ---- open
\* The archives handed to open(): the last saved archive, as saved or with
\* one defect a foreign or damaged archive can carry.
Defects ==
  {"none", "no_manifest", "bad_manifest", "no_entry_point", "no_content",
   "no_entry_file", "bad_versions", "bad_annotations", "versions_no_key",
   "flip_asset", "drop_asset", "add_dir"}

Garbage == RawData(<<123>>)
\* other bytes, of another length, than any asset the model adds
Damaged == RawData(<<9, 9>>)

ZipRemove(zip, name) == SelectSeq(zip, LAMBDA e : e.name # name)

UnderAssets(name) == Len(name) >= 2 /\ name[1] = "assets" /\ name[2] = "/"

AssetEntries(zip) == SelectSeq(zip, LAMBDA e : UnderAssets(e.name) /\ ~e.dir)

SavedManifest(zip) == ZipFileData(zip, ManifestPath).json[1].m[1]

WithManifest(zip, m) == ZipAdd(zip, ManifestPath, JsonData(ManifestJson(m)))

ApplyDefect(d, zip) ==
  CASE d = "none" -> zip
    [] d = "no_manifest" -> ZipRemove(zip, ManifestPath)
    [] d = "bad_manifest" -> ZipAdd(zip, ManifestPath, Garbage)
    [] d = "no_entry_point" ->
         WithManifest(zip, [SavedManifest(zip) EXCEPT
                              !.content = Some([entry_point |-> None])])
    [] d = "no_content" ->
         WithManifest(zip, [SavedManifest(zip) EXCEPT !.content = None])
    [] d = "no_entry_file" ->
         ZipRemove(zip, ManifestEntryPoint(SavedManifest(zip))[1])
    [] d = "bad_versions" -> ZipAdd(zip, VersionsPath, Garbage)
    [] d = "bad_annotations" -> ZipAdd(zip, AnnotationsPath, Garbage)
    [] d = "versions_no_key" ->
         ZipAdd(zip, VersionsPath,
                JsonData([m |-> None,
                          v |-> Some([schema_version |-> "1.0.0",
                                      current_version |-> DefaultVersion,
                                      versions |-> None]),
                          a |-> None]))
    [] d = "flip_asset" ->
         IF AssetEntries(zip) = <<>> THEN zip
         ELSE ZipAdd(zip, AssetEntries(zip)[1].name, Damaged)
    [] d = "drop_asset" ->
         IF AssetEntries(zip) = <<>> THEN zip
         ELSE ZipRemove(zip, AssetEntries(zip)[1].name)
    [] d = "add_dir" ->
         Append(zip, [name |-> <<"assets", "/">>, dir |-> TRUE, data |-> RawData(<<>>)])

\* the archive handed to open(): the saved one with defect d, and without its
\* manifest.json as well when dropManifest
OpenInput(zip, d, dropManifest) ==
  IF dropManifest THEN ZipRemove(ApplyDefect(d, zip), ManifestPath)
  ELSE ApplyDefect(d, zip)

OpenResolve(zip) ==
  /\ origin' = "open"
  /\ manifest' = OpenDocument(zip).manifest
  /\ content' = OpenDocument(zip).content
  /\ assets' = OpenDocument(zip).assets
  /\ versions' = OpenDocument(zip).versions
  /\ annotations' = OpenDocument(zip).annotations

\* open() rejects: no Document comes into being
OpenReject ==
  /\ origin' = "none"
  /\ manifest' = BlankManifest
  /\ content' = <<>>
  /\ assets' = <<>>
  /\ versions' = <<>>
  /\ annotations' = <<>>

\* the Document that was saved stays with the caller beside the opened one
Kept ==
  [origin |-> origin, manifest |-> manifest, content |-> content,
   assets |-> assets, versions |-> versions, annotations |-> annotations]

\* open() of the archive the preceding save() resolved with
OpenWith(d, dropManifest) ==
  /\ result.op = "save" /\ result.status = "ok"
  /\ Idle
  /\ LET zip == OpenInput(result.ret[1], d, dropManifest)
     IN /\ IF OpenError(zip) = None THEN OpenResolve(zip) ELSE OpenReject
        /\ result' = [op |-> "open",
                      status |-> IF OpenError(zip) = None THEN "ok" ELSE "error",
                      error |-> OpenError(zip), ret |-> None, input |-> Some(zip)]
  /\ original' = Some(Kept)
  /\ captured' = NoCapture
  /\ UNCHANGED <<pending, now, subtle, cliVars>>

Open == \E d \in Defects, dropManifest \in BOOLEAN : OpenWith(d, dropManifest)

\* open() of an archive exactly as save() produced it
OpenSaved == OpenWith("none", FALSE)

\* ------------------------------------------------- the files handed to validate
\* what the validator is run on: the archive save() produced, with up to two
\* of these departures from it
ValidatorDefects ==
  {"none", "no_manifest", "bad_manifest", "no_entry_point", "no_entry_file",
   "drop_asset", "no_mdx_version", "bad_mdx_version", "no_id", "bad_id",
   "no_title", "no_created", "bad_created", "no_modified", "bad_modified",
   "orphan", "backslash", "wrong_checksum", "bad_checksum_format",
   "unknown_algorithm", "broken_reference"}

\* the departures that are combined with each of the others
SecondDefects == {"none", "no_entry_file", "orphan", "backslash"}

OrphanPath == <<"assets", "/", "images", "/", "orphan", ".", "png">>
BackslashPath == <<"assets", "\\", "b", ".", "png">>
\* a digest no entry of the model has
WrongDigest == <<7, 7>>

HasManifest(zip) ==
  /\ EntryExists(zip, ManifestPath)
  /\ ~ParseThrows(FindEntry(zip, ManifestPath).data)

\* the category of the manifest's first asset record (None without one)
FirstAssetCategory(m) ==
  IF AssetCount(m) = 0 THEN None
  ELSE Some(CategoryOrder[CHOOSE i \in 1..Len(CategoryOrder) :
                            /\ m.assets[CategoryOrder[i]] # <<>>
                            /\ \A j \in 1..(i - 1) : m.assets[CategoryOrder[j]] = <<>>])

WithChecksum(m, checksum) ==
  IF FirstAssetCategory(m) = None THEN m
  ELSE [m EXCEPT !.assets[FirstAssetCategory(m)[1]][1].checksum = Some(checksum)]

DefectiveManifest(d, m) ==
  CASE d = "no_mdx_version" -> [m EXCEPT !.mdx_version = None]
    [] d = "bad_mdx_version" -> [m EXCEPT !.mdx_version = Some("1.0")]
    [] d = "no_id" -> [m EXCEPT !.document.id = None]
    [] d = "bad_id" -> [m EXCEPT !.document.id = Some(-1)]
    [] d = "no_title" -> [m EXCEPT !.document.title = <<>>]
    [] d = "no_created" -> [m EXCEPT !.document.created = None]
    [] d = "bad_created" -> [m EXCEPT !.document.created = Some(-1)]
    [] d = "no_modified" -> [m EXCEPT !.document.modified = None]
    [] d = "bad_modified" -> [m EXCEPT !.document.modified = Some(-1)]
    [] d = "wrong_checksum" ->
         WithChecksum(m, [algorithm |-> "sha256", digest |-> WrongDigest])
    [] d = "bad_checksum_format" ->
         WithChecksum(m, [algorithm |-> "", digest |-> WrongDigest])
    [] d = "unknown_algorithm" ->
         WithChecksum(m, [algorithm |-> "crc32", digest |-> WrongDigest])
    [] OTHER -> m

\* the entry point the manifest of the archive resolves to
ResolvedEntry(zip) ==
  IF HasManifest(zip)
  THEN ValidatorEntryPoint([manifest |-> Some(SavedManifest(zip))])
  ELSE DefaultEntryPoint

ApplyValidatorDefect(d, zip) ==
  CASE d \in {"none", "no_manifest", "bad_manifest"} -> ApplyDefect(d, zip)
    [] d \in {"no_entry_point", "drop_asset"} ->
         IF HasManifest(zip) THEN ApplyDefect(d, zip) ELSE zip
    [] d = "no_entry_file" -> ZipRemove(zip, ResolvedEntry(zip))
    [] d = "orphan" -> ZipAdd(zip, OrphanPath, RawData(<<5>>))
    [] d = "backslash" -> ZipAdd(zip, BackslashPath, RawData(<<6>>))
    [] d = "broken_reference" ->
         IF EntryExists(zip, ResolvedEntry(zip))
         THEN ZipAdd(zip, ResolvedEntry(zip), TextData(<<ImageReference>>))
         ELSE zip
    [] OTHER ->
         IF HasManifest(zip)
         THEN WithManifest(zip, DefectiveManifest(d, SavedManifest(zip)))
         ELSE zip

\* the file at filePath: absent, not a ZIP archive, or an archive
FileMissing == [exists |-> FALSE, zip |-> None]
NotAZip == [exists |-> TRUE, zip |-> None]
ArchiveFile(zip) == [exists |-> TRUE, zip |-> Some(zip)]

ValidatorFiles(zip) ==
  {FileMissing, NotAZip}
    \cup {ArchiveFile(ApplyValidatorDefect(d2, ApplyValidatorDefect(d1, zip))) :
            d1 \in ValidatorDefects, d2 \in SecondDefects}

SavedArchiveAtHand == result.op = "save" /\ result.status = "ok"

\* const validator = new MDXValidator(filePath); await validator.validate()
ValidateFile(file) ==
  /\ validator' = ValidatorAfter(NewValidator(file))
  /\ results' = <<getResults(ValidatorAfter(NewValidator(file)))>>

Validate ==
  /\ SavedArchiveAtHand
  /\ ~validator.constructed
  /\ \E file \in ValidatorFiles(result.ret[1]) : ValidateFile(file)
  /\ UNCHANGED <<origin, docVars, pending, original, result, now, subtle, captured,
                 exitCode, argv>>

\* await validator.validate() once more on the same instance, the file as
\* it was
ValidateAgain ==
  /\ validator.constructed
  /\ exitCode = None
  /\ Len(results) < MaxRuns
  /\ validator' = ValidatorAfter(validator)
  /\ results' = Append(results, getResults(ValidatorAfter(validator)))
  /\ UNCHANGED <<origin, docVars, pending, original, result, now, subtle, captured,
                 exitCode, argv>>

\* ------------------------------------------------------- the validate command
\* program.command('validate <file>').option('-v, --verbose', ...)
\*   .option('--no-exit', ...): the flags a command line can hold
CommandFlags == {"--verbose", "--no-exit"}

\* commander's parse of the flags into the options object handed to the
\* action: a boolean option is true when its flag is given, and a negatable
\* option '--no-exit' is the key "exit", true unless the flag is given
ParseOptions(flags) ==
  [verbose |-> "--verbose" \in flags, exit |-> "--no-exit" \notin flags]

\* options.key as a condition: undefined, so falsy, for a key the object lacks
Option(options, key) == IF key \in DOMAIN options THEN options[key] ELSE FALSE

\* the code the process ends with: process.exit(1), or 0 when the action
\* returns the results and the process runs to its end
ExitCodeOf(r, options) ==
  IF ~r.valid /\ ~Option(options, "noExit") THEN 1 ELSE 0

\* mdx validate <file> [flags]
ValidateCommand ==
  /\ SavedArchiveAtHand
  /\ ~validator.constructed
  /\ \E file \in ValidatorFiles(result.ret[1]), flags \in SUBSET CommandFlags :
       /\ ValidateFile(file)
       /\ argv' = flags
       /\ exitCode' = Some(ExitCodeOf(getResults(ValidatorAfter(NewValidator(file))),
                                      ParseOptions(flags)))
  /\ UNCHANGED <<origin, docVars, pending, original, result, now, subtle, captured>>

\* ------------------------------------------------------------- specifications
\* ---- the operations on the version history of one Document
NextHistory ==
  \/ Create
  \/ SetContentAny
  \/ AppendContent
  \/ CreateVersion
  \/ RestoreVersion
  \/ RemoveAsset

SpecHistory == Init /\ [][NextHistory]_vars

\* ---- the asset store and the manifest's asset inventory, up to save()
NextStore ==
  \/ Create
  \/ SetTitle
  \/ SetContent
  \/ AddAssetFromData
  \/ AddAssetResume
  \/ RemoveAsset
  \/ UpdateAsset
  \/ CreateVersion
  \/ Save

SpecStore == InitAnyPlatform /\ [][NextStore]_vars

\* save() and what can make its validation fail
NextSave ==
  \/ Create
  \/ SetTitle
  \/ AddAssetFromData
  \/ AddAssetResume
  \/ AddAnnotation
  \/ Save

SpecSave == InitAnyPlatform /\ [][NextSave]_vars

\* ---- save() and open() of the archive as saved
\* (the opened Document is compared with the saved one and not changed further)
NextRoundTrip ==
  \/ CreateTitled
  \/ origin = "create" /\ SetContent
  \/ origin = "create" /\ AppendContent
  \/ origin = "create" /\ AddAssetFromData
  \/ origin = "create" /\ AddAssetResume
  \/ origin = "create" /\ CreateVersion
  \/ origin = "create" /\ AddAnnotation
  \/ origin = "create" /\ Save
  \/ OpenSaved

SpecRoundTrip == Init /\ [][NextRoundTrip]_vars

\* ---- open() of archives as saved and of defective ones
\* (a Document built via create is saved; what open() makes of the archive is
\* observed and the opened Document not changed further)
NextOpen ==
  \/ CreateTitled
  \/ origin = "create" /\ SetEntryPoint
  \/ origin = "create" /\ AddAssetFromData
  \/ origin = "create" /\ AddAssetResume
  \/ origin = "create" /\ CreateVersion
  \/ origin = "create" /\ AddAnnotation
  \/ origin = "create" /\ Save
  \/ Open

SpecOpen == Init /\ [][NextOpen]_vars

\* ---- the side-files over cycles of save() and open()
NextSideFiles ==
  \/ CreateTitled
  \/ CreateVersion
  \/ AddAnnotation
  \/ RemoveAnnotation
  \/ Save
  \/ OpenSaved

SpecSideFiles == Init /\ [][NextSideFiles]_vars

\* the operations on a Document, with the clock running: a session that
\* edits the content, then stores assets, then records versions, then
\* annotates
NextModified ==
  \/ Tick
  \/ Create
  \/ assets = <<>> /\ versions = <<>> /\ annotations = <<>> /\ SetContent
  \/ assets = <<>> /\ versions = <<>> /\ annotations = <<>> /\ AppendContent
  \/ versions = <<>> /\ annotations = <<>> /\ AddAssetFromData
  \/ AddAssetResume
  \/ versions = <<>> /\ annotations = <<>> /\ RemoveAsset
  \/ annotations = <<>> /\ CreateVersion
  \/ annotations = <<>> /\ RestoreVersion
  \/ AddAnnotation
  \/ UpdateAnnotationStatus
  \/ AddAnnotationReply
  \/ RemoveAnnotation

SpecModified == Init /\ [][NextModified]_vars

\* how many sections of the manifest differ from what create("T") made
Touched(m) ==
  Cardinality({k \in 1..13 :
    <<m.document.subtitle # None, m.document.description # None,
      m.document.version # None, m.document.language # None,
      m.content # Some([entry_point |-> Some(DefaultEntryPoint)]),
      m.document.authors # <<>>, m.document.contributors # <<>>,
      AssetCount(m) > 0, m.rendering # None, m.styles # None,
      m.collaboration # None, m.history # None, m.custom # None>>[k]})
FewTouched == Touched(manifest) < MaxTouched

\* the manifest's setters and methods, with the clock running
NextManifest ==
  \/ Tick
  \/ CreateTitled
  \/ FewTouched /\ SetTitle
  \/ FewTouched /\ SetSubtitle
  \/ FewTouched /\ SetDescription
  \/ FewTouched /\ SetVersion
  \/ FewTouched /\ SetLanguage
  \/ FewTouched /\ SetEntryPoint
  \/ FewTouched /\ AddAuthor
  \/ FewTouched /\ AddContributor
  \/ FewTouched /\ AddManifestAsset
  \/ FewTouched /\ UpdateAsset
  \/ FewTouched /\ UpdateAbsentAsset
  \/ FewTouched /\ SetRenderingOptions
  \/ FewTouched /\ SetStylesOptions
  \/ FewTouched /\ EnableCollaboration
  \/ FewTouched /\ EnableHistory
  \/ FewTouched /\ SetCustomData

SpecManifest == Init /\ [][NextManifest]_vars

\* the validator, run on what the library saves
NextValidator ==
  \/ ~validator.constructed /\ Create
  \/ ~validator.constructed /\ AddAssetFromData
  \/ ~validator.constructed /\ AddStylesheet
  \/ ~validator.constructed /\ AddAssetResume
  \/ ~validator.constructed /\ Save
  \/ Validate
  \/ ValidateAgain

SpecValidator == Init /\ [][NextValidator]_vars

\* the validate command, run on what the library saves
NextCommand ==
  \/ ~validator.constructed /\ Create
  \/ ~validator.constructed /\ AddAssetFromData
  \/ ~validator.constructed /\ AddAssetResume
  \/ ~validator.constructed /\ Save
  \/ ValidateCommand

SpecCommand == Init /\ [][NextCommand]_vars

\* ================================================================= properties
Archive == result.ret[1]
Opened == result.input[1]
V1 == <<"1", ".", "0", ".", "0">>
V2 == <<"1", ".", "1", ".", "0">>

StoreBytes(map) == [p \in MapKeys(map) |-> ViewBytes(MapGet(map, p))]

\* C1 (SpecRoundTrip): when the archive that save() produced for a Document
\* built via create is opened, open() resolves with a Document of the same
\* title, the same content, the same asset store (same paths, same bytes at
\* each path) and the same version and annotation lists.
C1_RoundTrip ==
  (result.op = "open" /\ original # None /\ original[1].origin = "create")
    => /\ result.status = "ok"
       /\ manifest.document.title = original[1].manifest.document.title
       /\ content = original[1].content
       /\ StoreBytes(assets) = StoreBytes(original[1].assets)
       /\ versions = original[1].versions
       /\ annotations = original[1].annotations

\* C2 (SpecStore): after save(), every manifest asset record whose path is in
\* the asset store carries the checksum of the bytes stored, and written to
\* the archive, at that path.
C2_ChecksumLaw ==
  (result.op = "save" /\ result.status = "ok")
    => \A i \in 1..AssetCount(manifest) :
         LET r == getAssets(manifest)[i]
         IN MapHas(assets, r.path)
              => /\ ZipFileExists(Archive, r.path)
                 /\ ZipFileData(Archive, r.path) = ViewBytes(MapGet(assets, r.path))
                 /\ r.checksum = computeChecksum(MapGet(assets, r.path), subtle)

\* C3 (SpecStore): in every archive save() produces, every path of a manifest
\* asset record is the name of an archive entry.
C3_ManifestPathsExist ==
  (result.op = "save" /\ result.status = "ok")
    => \A p \in AssetPaths(manifest) : ZipFileExists(Archive, p)

\* C4 (SpecHistory): in a Document built via create, the first version entry
\* has parent_version null and every later entry has the version string of
\* the entry before it as its parent_version.
C4_VersionChain ==
  origin = "create"
    => \A i \in 1..Len(versions) :
         versions[i].parent_version =
           (IF i = 1 THEN None ELSE Some(versions[i - 1].version))

C4_Witness ==
  /\ origin = "create"
  /\ Len(versions) = 2
  /\ versions[2].parent_version = Some(versions[1].version)

WellFormed(text) == \A i \in 1..Len(text) : ~IsSurrogate(text[i])

C6_MissingManifest ==
  (result.op = "open" /\ ~ZipFileExists(Opened, ManifestPath))
    => /\ result.status = "error"
       /\ result.error[1].mentions = Some(ManifestPath)
       /\ origin = "none"

\* an archive that lacks manifest.json and holds other entries was opened
C6_Witness ==
  /\ result.op = "open"
  /\ ~ZipFileExists(Opened, ManifestPath)
  /\ Len(Opened) >= 3
  /\ result.status = "error"

\* C7 (SpecOpen): open() of an archive whose manifest.json and side-files
\* parse rejects iff the entry-point path (content.entry_point, or document.md
\* when the manifest declares none) is absent from the archive, and otherwise
\* loads that entry as the content.
ResolvedEntryPoint(m) ==
  IF m.content # None /\ IsSome(m.content[1].entry_point)
  THEN m.content[1].entry_point[1] ELSE DefaultEntryPoint

SideFilesParse(zip) ==
  /\ ZipFileExists(zip, VersionsPath) => ~ParseThrows(ZipFileData(zip, VersionsPath))
  /\ ZipFileExists(zip, AnnotationsPath) => ~ParseThrows(ZipFileData(zip, AnnotationsPath))

ManifestParses(zip) ==
  ZipFileExists(zip, ManifestPath) /\ ~ParseThrows(ZipFileData(zip, ManifestPath))

C7_EntryPointDefault ==
  (result.op = "open" /\ ManifestParses(Opened) /\ SideFilesParse(Opened))
    => LET ep == ResolvedEntryPoint(SavedManifest(Opened))
       IN /\ (result.status = "error") <=> ~ZipFileExists(Opened, ep)
          /\ result.status = "ok" => content = AsText(ZipFileData(Opened, ep))

\* C8 (SpecSideFiles): the archive save() produces contains
\* history/versions.json iff the version list is non-empty and
\* annotations/annotations.json iff the annotation list is non-empty.
C8_SideFilesIff ==
  (result.op = "save" /\ result.status = "ok")
    => /\ ZipFileExists(Archive, VersionsPath) <=> Len(versions) > 0
       /\ ZipFileExists(Archive, AnnotationsPath) <=> Len(annotations) > 0

\* C9 (SpecSave): a save() called while validate() reports an issue rejects,
\* produces no archive and leaves the Document as it was.
C9_SaveValidates ==
  [][(result'.op = "save" /\ Len(validate(manifest)) > 0)
       => /\ result'.status = "error"
          /\ result'.ret = None
          /\ docVars' = docVars
          /\ origin' = origin]_vars

\* save() rejected a Document that holds an asset and has an empty title
C9_Witness ==
  /\ result.op = "save" /\ result.status = "error"
  /\ manifest.document.title = <<>>
  /\ assets # <<>>

\* C10 (SpecOpen): open() rejects only on a structural failure: manifest.json
\* missing or malformed (unparsable, or without an entry point), or the entry
\* point missing from the archive.
Structural(zip) ==
  \/ ~ManifestParses(zip)
  \/ SavedManifest(zip).content = None
  \/ SavedManifest(zip).content[1].entry_point = None
  \/ ~ZipFileExists(zip, ResolvedEntryPoint(SavedManifest(zip)))

C10_RejectsOnlyStructural ==
  (result.op = "open" /\ result.status = "error") => Structural(Opened)

\* ------------------------------------------------------ the validator's runs
Runs == 1..Len(results)
Validated == validator.file.zip[1]
OpensAsZip == validator.constructed /\ validator.file.exists /\ validator.file.zip # None

\* C11 (SpecValidator): whatever validate() returns, at any of its return
\* points, has valid true exactly when its error list is empty, however many
\* warnings and info issues it holds.
C11_ValidIffNoErrors ==
  \A i \in Runs : results[i].valid <=> (results[i].errors = <<>>)

\* a run returned warnings and info issues and no error, and valid is true
C11_Witness ==
  \E i \in Runs :
    /\ results[i].valid
    /\ results[i].warnings # <<>>
    /\ results[i].info # <<>>
    /\ results[i].errors = <<>>

\* what a fresh validator returns for the archive
FreshRun(zip) == getResults(ValidatorAfter(NewValidator(ArchiveFile(zip))))
\* the first asset record of the saved archive's manifest
FirstAsset == getAssets(SavedManifest(Archive))[1]
\* the saved archive has an asset record and is reported free of errors
CleanWithAsset ==
  /\ SavedArchiveAtHand
  /\ AssetCount(SavedManifest(Archive)) > 0
  /\ FreshRun(Archive).errors = <<>>

\* C12 (SpecValidator): an archive that validates without errors, changed
\* only in that the checksum recorded for one asset names a supported
\* algorithm and a digest that is not the digest of the asset's bytes, gets
\* exactly one error, a checksum mismatch citing that asset's path, and valid
\* is false.
C12_ChecksumMismatch ==
  (/\ OpensAsZip
   /\ CleanWithAsset
   /\ Validated = ApplyValidatorDefect("wrong_checksum", Archive))
    => /\ results[1].errors = <<Issue("Checksum mismatch", Some(FirstAsset.path))>>
       /\ ~results[1].valid

\* such an archive was validated: its first asset's recorded digest is wrong
C12_Witness ==
  /\ OpensAsZip
  /\ CleanWithAsset
  /\ Validated = ApplyValidatorDefect("wrong_checksum", Archive)
  /\ Validated # Archive
  /\ results[1].summary.errors = 1

\* the archive is as the format describes it: its manifest parses, every
\* asset record names an entry of the archive with the recorded size and
\* digest, every file under assets/ has a record, and the entry point exists
RecordHolds(zip, r) ==
  /\ EntryExists(zip, r.path)
  /\ EntrySize(FindEntry(zip, r.path)) = r.size_bytes
  /\ r.checksum # None
  /\ r.checksum[1].algorithm \in HashAlgorithms
  /\ r.checksum[1].digest = Digest(FindEntry(zip, r.path).data)
DefectFree(zip) ==
  /\ HasManifest(zip)
  /\ LET m == SavedManifest(zip)
     IN /\ \A k \in 1..Len(getAssets(m)) : RecordHolds(zip, getAssets(m)[k])
        /\ \A i \in 1..Len(zip) :
             StartsWith(zip[i].name, <<"assets", "/">>) /\ ~zip[i].dir
               => \E k \in 1..Len(getAssets(m)) : getAssets(m)[k].path = zip[i].name
        /\ EntryExists(zip, ResolvedEntry(zip))

\* C13 (SpecValidator): an archive without defects to which one file under
\* assets/ is added that no asset record of the manifest names gets exactly
\* one warning, "Orphaned asset" for that file, and valid is true.
C13_OneOrphanWarning ==
  (/\ OpensAsZip
   /\ SavedArchiveAtHand
   /\ DefectFree(Archive)
   /\ Validated = ApplyValidatorDefect("orphan", Archive))
    => /\ results[1].warnings
            = <<Issue("Orphaned asset (not in manifest)", Some(OrphanPath))>>
       /\ results[1].valid

\* C14 (SpecValidator): validate() called a second time on the same
\* instance, the archive unchanged, returns the errors, warnings and info
\* issues the first call returned.
C14_Idempotent ==
  OpensAsZip /\ Len(results) >= 2
    => /\ results[2].errors = results[1].errors
       /\ results[2].warnings = results[1].warnings
       /\ results[2].info = results[1].info

\* the issue is in one of the lists the run returned
Reported(r, message, subject) ==
  \E list \in {r.errors, r.warnings, r.info} :
    \E k \in 1..Len(list) : list[k] = Issue(message, subject)

\* the asset records a reader of the archive's manifest.json finds
RecordsOf(zip) == IF HasManifest(zip) THEN getAssets(SavedManifest(zip)) ELSE <<>>

\* the record is one the asset stage visits (C13 is about the other records)
InValidatedCategory(zip, a) ==
  \E i \in 1..Len(ValidatedCategories) :
    \E k \in 1..Len(SavedManifest(zip).assets[ValidatedCategories[i]]) :
      SavedManifest(zip).assets[ValidatedCategories[i]][k] = a

\* every later stage has reported what is there for it to report: a missing
\* entry point file, an absent asset among the records the asset stage
\* visits, a recorded digest that differs, a file under assets/ without a
\* record, a backslash in a path
LaterStagesReport(zip, r) ==
  /\ ~EntryExists(zip, ResolvedEntry(zip))
       => Reported(r, "Entry point not found in archive", Some(ResolvedEntry(zip)))
  /\ \A k \in 1..Len(RecordsOf(zip)) :
       LET a == RecordsOf(zip)[k]
       IN IF ~EntryExists(zip, a.path)
          THEN InValidatedCategory(zip, a)
                 => Reported(r, "Asset not found in archive", Some(a.path))
          ELSE (/\ a.checksum # None
                /\ a.checksum[1].algorithm \in HashAlgorithms
                /\ a.checksum[1].digest # Digest(FindEntry(zip, a.path).data))
                 => Reported(r, "Checksum mismatch", Some(a.path))
  /\ \A i \in 1..Len(zip) :
       /\ (/\ StartsWith(zip[i].name, <<"assets", "/">>) /\ ~zip[i].dir
           /\ \A k \in 1..Len(RecordsOf(zip)) : RecordsOf(zip)[k].path # zip[i].name)
            => Reported(r, "Orphaned asset (not in manifest)", Some(zip[i].name))
       /\ Includes(zip[i].name, <<"\\">>)
            => Reported(r, "Path contains backslash", Some(zip[i].name))

Says(list, message) == \E k \in 1..Len(list) : list[k].message = message
\* the manifest.json the validated archive holds was read as a manifest
ManifestRead == OpensAsZip /\ HasManifest(Validated) /\ ~ManifestStageThrows(Validated)
Read == SavedManifest(Validated)
AboutVersion ==
  {"Missing required field: mdx_version", "mdx_version should follow SemVer format"}
AboutId ==
  {"Missing required field: document.id", "document.id should be a valid UUID v4"}
AboutCreated ==
  {"Missing recommended field: document.created",
   "document.created should be ISO 8601 format"}
AboutModified ==
  {"Missing recommended field: document.modified",
   "document.modified should be ISO 8601 format"}
\* exactly one issue about the field, at the level of the list
OnlyIn(list, r, messages) ==
  /\ \E msg \in messages : Says(list, msg)
  /\ \A msg \in messages :
       \A other \in {r.errors, r.warnings, r.info} \ {list} : ~Says(other, msg)
\* the severities of title, created, modified, version and language
OtherFieldLevels(r, doc) ==
  /\ doc.title = <<>>
       => OnlyIn(r.errors, r, {"Missing required field: document.title"})
  /\ (doc.created = None \/ ~isValidISO8601(doc.created[1]))
       => OnlyIn(r.warnings, r, AboutCreated)
  /\ (doc.modified = None \/ ~isValidISO8601(doc.modified[1]))
       => OnlyIn(r.warnings, r, AboutModified)
  /\ doc.version = None
       => OnlyIn(r.info, r, {"Optional field document.version not set"})
  /\ doc.language = None
       => OnlyIn(r.info, r, {"Optional field document.language not set"})

C17_ExitCode ==
  exitCode # None
    => /\ results[1].valid => exitCode = Some(0)
       /\ (~results[1].valid /\ "--no-exit" \notin argv) => exitCode[1] # 0
       /\ (~results[1].valid /\ "--no-exit" \in argv) => exitCode = Some(0)

\* ----------------------------------------------------- document.modified
\* a step that is one of the Document's mutating operations, completed
MutatingOperation ==
  \/ SetContent
  \/ AppendContent
  \/ AddAssetResume
  \/ RemoveAsset
  \/ CreateVersion
  \/ RestoreVersion /\ result'.ret = Some(TRUE)
  \/ AddAnnotation
  \/ UpdateAnnotationStatus
  \/ AddAnnotationReply
  \/ RemoveAnnotation

\* C18 (SpecModified): every mutating operation on a Document leaves
\* document.modified at the time of the operation.
C18_ModifiedUpdated ==
  [][MutatingOperation => manifest'.document.modified = Some(now)]_vars

\* a step that is one of the manifest's mutating setters or methods
ManifestMutation ==
  \/ SetTitle \/ SetSubtitle \/ SetDescription \/ SetVersion \/ SetLanguage
  \/ SetEntryPoint \/ AddAuthor \/ AddContributor \/ AddManifestAsset
  \/ UpdateAsset \/ SetRenderingOptions \/ SetStylesOptions
  \/ EnableCollaboration \/ EnableHistory \/ SetCustomData

\* C19 (SpecManifest): every mutating setter and method of the manifest
\* leaves document.modified at the current time, also when it sets the value
\* the field already has; an updateAsset for a path no record has returns
\* false and leaves the manifest, modified included, as it was.
C19_SettersStamp ==
  [][/\ ManifestMutation => manifest'.document.modified = Some(now)
     /\ UpdateAbsentAsset
          => manifest' = manifest /\ result'.ret = Some(FALSE)]_vars

\* a manifest created at time 0 whose setters ran at time 1, and on which an
\* updateAsset then found no record
C19_Witness ==
  /\ origin = "create"
  /\ manifest.document.created = Some(0)
  /\ manifest.document.modified = Some(1)
  /\ now = 1
  /\ manifest.custom # None
  /\ result.op = "updateAsset"
  /\ result.ret = Some(FALSE)

\* ------------------------------------------------------------------ create
\* the fields the manifest's validate() asks for are there
Populated(m) ==
  /\ m.mdx_version # None
  /\ m.document.id # None
  /\ m.document.title # <<>>
  /\ m.document.created # None
  /\ m.document.modified # None
  /\ m.content # None
  /\ ~Falsy(m.content[1].entry_point)

CreateNonEmpty ==
  \E title \in Titles \ {<<>>}, options \in CreateOptions : CreateWith(title, options)

\* C20 (SpecSave): the manifest of the Document create(title, options)
\* returns, for a non-empty title and any options, has mdx_version,
\* document.id, title, created, modified and content.entry_point populated,
\* and validate() returns no error for it.
C20_CreateValidates ==
  [][CreateNonEmpty => Populated(manifest') /\ validate(manifest') = <<>>]_vars

\* a Document just created with a title and with options
C20_Witness ==
  /\ origin = "create"
  /\ result = NoResult
  /\ assets = <<>> /\ annotations = <<>>
  /\ manifest.document.title = <<84>>
  /\ manifest.document.description # None
  /\ manifest.document.authors # <<>>
  /\ validate(manifest) = <<>>

\* ------------------------------------------------------------ version list
\* C21 (SpecHistory): no two entries of the version list carry the same
\* version string, whatever createVersion calls were made.
C21_UniqueVersions ==
  \A i, j \in 1..Len(versions) :
    i # j => versions[i].version # versions[j].version

\* ------------------------------------------------------- the asset inventory
\* the manifest's asset records, all categories
Records == getAssets(manifest)

\* C22 (SpecStore): between calls, no two asset records of the manifest, of
\* the same or of different categories, have the same path.
C22_PathIsKey ==
  (Alive /\ Idle)
    => \A i, j \in 1..Len(Records) : i # j => Records[i].path # Records[j].path

\* ------------------------------------------- addAsset(metadata, category)
\* records a caller may hand to manifest.addAsset, and the categories named
AssetRecordInputs ==
  {ManifestAssetInput,
   [path |-> <<"assets", "/", "images", "/", "p", ".", "png">>,
    mime_type |-> "image/png", size_bytes |-> 1, checksum |-> None]}
CategoryArguments == {"data", "images"}

\* manifest.addAsset(metadata, category)
AddAssetRecordWith(metadata, category) ==
  /\ AssetCount(manifest) < MaxAssets
  /\ ManifestCall(addAsset(manifest, metadata, category, now), NoResult)

AddAssetRecord ==
  \E metadata \in AssetRecordInputs, category \in CategoryArguments :
    AddAssetRecordWith(metadata, category)

\* the manifest's asset inventory, driven directly
NextInventory ==
  \/ Tick
  \/ CreateTitled
  \/ AddAssetRecord
  \/ UpdateAsset
  \/ UpdateAbsentAsset

SpecInventory == Init /\ [][NextInventory]_vars

\* the category a record's path names: that of its assets/<category>/ prefix,
\* else that of its extension
ImpliedCategory(metadata) ==
  IF Len(metadata.path) >= 4 /\ metadata.path[1] = "assets"
     /\ metadata.path[2] = "/" /\ metadata.path[4] = "/"
  THEN Some(metadata.path[3])
  ELSE getAssetCategory(metadata.path)

Conflicts(metadata, category) ==
  ImpliedCategory(metadata) # None /\ ImpliedCategory(metadata) # Some(category)

ConflictingAdd ==
  \E metadata \in AssetRecordInputs, category \in CategoryArguments :
    Conflicts(metadata, category) /\ AddAssetRecordWith(metadata, category)

\* C23 (SpecInventory): a call of addAsset whose category argument conflicts
\* with the category the record's path implies fails with CategoryMismatch and
\* leaves the manifest as it was.
C23_CategoryMismatch ==
  [][ConflictingAdd
       => manifest' = manifest /\ result'.status = "error"
          /\ result'.error = Some("CategoryMismatch")]_vars

\* --------------------------------------------- addAssetFromData: the path
MaxNameLen == 3

\* the characters of a file name: both separators, the dot, a letter and an
\* extension of the table
NameAlphabet == {"/", "\\", ".", "a", "png"}
Names == UNION {[1..n -> NameAlphabet] : n \in 0..MaxNameLen}

\* addAssetFromData(data, filename, options) with any file name, with and
\* without the options category, targetName and a further key "path"
NameInputs ==
  [data : {View1},
   filename : Names,
   category : {None, Some("data")},
   targetName : {None, Some(<<>>), Some(<<".", ".", "/", "b">>),
                 Some(<<"\\", "b", ".", "csv">>)},
   path : {None, Some(<<".", ".", "/", "e">>)}]

AddNamedAsset == \E in \in NameInputs : AddAssetFromDataWith(in)

\* one addAssetFromData call on a new Document, for every name
NextAssetPath ==
  \/ Create
  \/ assets = <<>> /\ AddNamedAsset
  \/ AddAssetResume

SpecAssetPath == Init /\ [][NextAssetPath]_vars

\* the segments of a name, either separator ending one
RECURSIVE Segments(_, _)
Segments(name, current) ==
  IF name = <<>> THEN <<current>>
  ELSE IF Head(name) \in {"/", "\\"}
       THEN <<current>> \o Segments(Tail(name), <<>>)
       ELSE Segments(Tail(name), Append(current, Head(name)))

IsNameSegment(s) == s \notin {<<>>, <<".">>, <<".", ".">>}

\* the path the call is to store under, record and return
NamedCategory(filename, options) ==
  IF options.category # None THEN options.category[1]
  ELSE IF getAssetCategory(filename) # None THEN getAssetCategory(filename)[1]
  ELSE "other"

NamedTarget(filename, options) ==
  IF options.targetName \in {None, Some(<<>>)} THEN filename
  ELSE options.targetName[1]

NamedPath(filename, options) ==
  <<"assets", "/", NamedCategory(filename, options), "/">>
    \o JoinSlash(SelectSeq(Segments(NamedTarget(filename, options), <<>>),
                           IsNameSegment))

NoTraversal(path) ==
  /\ \A i \in 1..Len(path) : path[i] # "\\"
  /\ \A i \in 1..Len(SplitSlash(path)) : SplitSlash(path)[i] # <<".", ".">>

\* what the completed call has done with the path
StoredRecordedReturned(p, expected) ==
  /\ result'.ret = Some(expected)
  /\ MapHas(assets', expected) /\ MapGet(assets', expected) = p.data
  /\ LET records == manifest'.assets[NamedCategory(p.filename, p.options)]
     IN records # <<>> /\ records[Len(records)].path = expected
  /\ NoTraversal(expected)

\* C24 (SpecAssetPath): a completed addAssetFromData call has stored the bytes
\* under, recorded in the manifest and returned the path
\* assets/<category>/<sanitized-name>, which has no ".." segment and no
\* backslash.
C24_AssetPath ==
  [][AddAssetResume
       => StoredRecordedReturned(pending[1],
            NamedPath(pending[1].filename, pending[1].options))]_vars

\* the same, for the calls whose options carry no further key
C24_AssetPathPlainOptions ==
  [][AddAssetResume /\ pending[1].options.path = None
       => StoredRecordedReturned(pending[1],
            NamedPath(pending[1].filename, pending[1].options))]_vars

\* ------------------------------------------------- snapshots of other types
\* VersionSnapshot.type
SnapshotTypes == {"full", "diff", "reference"}

\* the archive with every snapshot of history/versions.json declared of the
\* given type, the snapshot files as they are
RetypeSnapshots(zip, type) ==
  IF ZipFileExists(zip, VersionsPath)
  THEN LET f == ZipFileData(zip, VersionsPath).json[1].v[1]
           retyped == [i \in 1..Len(f.versions[1]) |->
                         [f.versions[1][i] EXCEPT
                            !.snapshot = Some([@[1] EXCEPT !.type = type])]]
       IN ZipAdd(zip, VersionsPath,
                 JsonData(VersionsJson(f.current_version, retyped)))
  ELSE zip

\* open() of an archive whose history declares snapshots of one type
OpenRetyped ==
  \E type \in SnapshotTypes :
    /\ result.op = "save" /\ result.status = "ok"
    /\ Idle
    /\ LET zip == RetypeSnapshots(result.ret[1], type)
       IN /\ OpenResolve(zip)
          /\ result' = [op |-> "open", status |-> "ok", error |-> None,
                        ret |-> None, input |-> Some(zip)]
    /\ original' = Some(Kept)
    /\ captured' = NoCapture
    /\ UNCHANGED <<pending, now, subtle, cliVars>>

\* a history recorded, saved, opened and restored from
NextSnapshots ==
  \/ CreateTitled
  \/ origin = "create" /\ SetContent
  \/ origin = "create" /\ CreateVersion
  \/ origin = "create" /\ Save
  \/ OpenRetyped
  \/ origin = "open" /\ SetContent
  \/ origin = "open" /\ RestoreVersion

SpecSnapshots == Init /\ [][NextSnapshots]_vars

\* the version entries whose snapshot is not a full one
NotFull(version) ==
  LET entry == FindVersion(versions, version)
  IN IsSome(entry) /\ IsSome(entry[1].snapshot)
     /\ entry[1].snapshot[1].type # "full"

\* C25 (SpecSnapshots): for a version whose snapshot is of type diff or
\* reference, getVersionContent returns no content, and a restoreVersion call
\* for it returns false, the snapshot file's bytes not installed.
C25_FullSnapshotsOnly ==
  \A version \in VersionStrings :
    NotFull(version)
      => /\ getVersionContent(versions, assets, version) = None
         /\ (result.op = "restoreVersion" /\ result.input = Some(version))
               => result.ret = Some(FALSE)

\* ------------------------------------------------------ annotation statuses
\* AnnotationType: the five motivations
Motivations ==
  {"commenting", "highlighting", "editing", "questioning", "bookmarking"}

\* addAnnotation with any motivation
AddAnyAnnotation == \E type \in Motivations : AddAnnotationOf(type)

\* the annotations of a Document, with the clock running
NextAnnotations ==
  \/ Tick
  \/ Create
  \/ AddAnyAnnotation
  \/ UpdateAnnotationStatus
  \/ AddAnnotationReply
  \/ RemoveAnnotation

SpecAnnotations == Init /\ [][NextAnnotations]_vars

\* the statuses the format allows per motivation (format specification 6.3)
LegalStatuses(motivation) ==
  CASE motivation = "commenting" -> {"open", "resolved", "wontfix"}
    [] motivation = "highlighting" -> {"active", "archived"}
    [] motivation = "editing" -> {"pending", "accepted", "rejected"}
    [] motivation = "questioning" -> {"open", "answered"}
    [] motivation = "bookmarking" -> {"active", "archived"}

\* C26 (SpecAnnotations): the status addAnnotation gives a new annotation is
\* one the format allows for the annotation's motivation.
C26_InitialStatusLegal ==
  [][AddAnyAnnotation
       => LET added == annotations'[Len(annotations')]
          IN added.status \in LegalStatuses(added.motivation)]_vars

\* ------------------------------------------------- the order of the entries
\* Documents built via create or loaded via open, edited and saved
NextEntryOrder ==
  \/ CreateTitled
  \/ AddAssetFromData
  \/ AddAssetResume
  \/ CreateVersion
  \/ AddAnnotation
  \/ Save
  \/ OpenSaved

SpecEntryOrder == Init /\ [][NextEntryOrder]_vars

\* entry a stands before entry b in the archive, or b is not in it
Precedes(zip, a, b) ==
  ZipHas(zip, b) => ZipHas(zip, a) /\ ZipIndex(zip, a) < ZipIndex(zip, b)

\* C27 (SpecEntryOrder): in every archive save() produces, manifest.json
\* stands before the entry-point content, the content before every entry under
\* assets/, and every entry under assets/ before history/versions.json and
\* annotations/annotations.json.
C27_EntryOrder ==
  (result.op = "save" /\ result.status = "ok")
    => LET entryPoint == ManifestEntryPoint(manifest)[1]
       IN /\ Precedes(Archive, ManifestPath, entryPoint)
          /\ \A i \in 1..Len(Archive) :
               UnderAssets(Archive[i].name)
                 => /\ ZipIndex(Archive, entryPoint) < i
                    /\ Precedes(Archive, Archive[i].name, VersionsPath)
                    /\ Precedes(Archive, Archive[i].name, AnnotationsPath)

\* the same, for the Documents built via create
C27_EntryOrderCreated ==
  origin = "create" => C27_EntryOrder

\* ------------------------------------------ save() during addAssetFromData
\* calls on one instance, save() not waiting for addAssetFromData to settle
NextInterleaved ==
  \/ Create
  \/ SetTitle
  \/ AddAssetFromData
  \/ AddAssetResume
  \/ Save
  \/ SaveWhileAdding

SpecInterleaved == Init /\ [][NextInterleaved]_vars

\* the paths the archive's manifest.json lists
RecordedIn(zip) == AssetPaths(SavedManifest(zip))

\* C28 (SpecInterleaved): an archive save() produces, also one produced while
\* addAssetFromData awaits its checksum, holds no entry under assets/ that its
\* manifest has no record for.
C28_AddIsAtomic ==
  (result.op = "save" /\ result.status = "ok")
    => \A i \in 1..Len(Archive) :
         UnderAssets(Archive[i].name) => Archive[i].name \in RecordedIn(Archive)

\* the same, for the archives save() produces between calls
C28_SettledSaves ==
  (result.op = "save" /\ result.status = "ok" /\ Idle) => C28_AddIsAtomic

\* --------------------------------------------------- snapshots in the store
\* C29 (SpecHistory): every version entry of a Document built via create has
\* its snapshot bytes in the asset store at its snapshot path, so that
\* getVersionContent is defined for it, and a restoreVersion call for it
\* returns true.
C29_SnapshotsStored ==
  (origin = "create")
    => \A i \in 1..Len(versions) :
         /\ MapHas(assets, versions[i].snapshot[1].path)
         /\ getVersionContent(versions, assets, versions[i].version) # None
         /\ (result.op = "restoreVersion"
               /\ result.input = Some(versions[i].version))
              => result.ret = Some(TRUE)

\* every version entry's snapshot path is a key of the store
AllStored(vs, as) == \A i \in 1..Len(vs) : MapHas(as, vs[i].snapshot[1].path)

\* no step but a removeAsset call takes a snapshot out of the store
C29_OnlyRemoveAssetLoses ==
  [][(AllStored(versions, assets) /\ ~AllStored(versions', assets'))
       => \E path \in MapKeys(assets) : assets' = removeAsset(assets, path)]_vars

\* ------------------------------------------------------- the snapshot path
MaxVersionLen == 3

\* createVersion takes any string as the version
VersionAlphabet == {"/", "\\", ".", "1"}
AnyVersionStrings == UNION {[1..n -> VersionAlphabet] : n \in 0..MaxVersionLen}

CreateAnyVersion == \E version \in AnyVersionStrings : CreateVersionNamed(version)

\* a first version of any name recorded and saved
NextSnapshotPath ==
  \/ Create
  \/ SetContent
  \/ versions = <<>> /\ CreateAnyVersion
  \/ Save

SpecSnapshotPath == Init /\ [][NextSnapshotPath]_vars

SnapshotsFolder == <<"history", "/", "snapshots", "/">>

\* a path under history/snapshots/ with no "..", no "." segment, no backslash
SafeSnapshotPath(path) ==
  /\ StartsWith(path, SnapshotsFolder)
  /\ NoTraversal(path)
  /\ \A i \in 1..Len(SplitSlash(path)) : SplitSlash(path)[i] # <<".">>

\* C30 (SpecSnapshotPath): whatever the version string, the path createVersion
\* stores the snapshot under, which is the entry's name in the archive save()
\* produces, lies under history/snapshots/ and has no ".." segment, no "."
\* segment and no backslash.
C30_SnapshotPathSafe ==
  \A i \in 1..Len(versions) :
    LET path == versions[i].snapshot[1].path
    IN /\ MapHas(assets, path)
       /\ SafeSnapshotPath(path)
       /\ (result.op = "save" /\ result.status = "ok") => ZipHas(Archive, path)

\* ------------------------------------------------- every operation at once
Next ==
  \/ Tick
  \/ Create
  \/ SetTitle
  \/ SetEntryPoint
  \/ SetContent
  \/ AppendContent
  \/ AddAssetFromData
  \/ AddAssetResume
  \/ RemoveAsset
  \/ UpdateAsset
  \/ CreateVersion
  \/ RestoreVersion
  \/ AddAnnotation
  \/ UpdateAnnotationStatus
  \/ AddAnnotationReply
  \/ RemoveAnnotation
  \/ Save
  \/ Open
  \/ AddStylesheet
  \/ Validate
  \/ ValidateAgain
  \/ ValidateCommand
  \/ SetSubtitle
  \/ SetDescription
  \/ SetVersion
  \/ SetLanguage
  \/ AddAuthor
  \/ AddContributor
  \/ AddManifestAsset
  \/ UpdateAbsentAsset
  \/ SetRenderingOptions
  \/ SetStylesOptions
  \/ EnableCollaboration
  \/ EnableHistory
  \/ SetCustomData
  \/ AddAssetRecord
  \/ AddNamedAsset
  \/ OpenRetyped
  \/ AddAnyAnnotation
  \/ SaveWhileAdding
  \/ CreateAnyVersion

Spec == Init /\ [][Next]_vars

====
